---- MODULE Spec2Model ----
(***************************************************************************)
(* Model of the Apple Health importer's transformation-and-ingestion       *)
(* pipeline: streaming processor with progress checkpoint, standard        *)
(* (whole-file) import, validator, storage writer and import tracker.      *)
(***************************************************************************)
EXTENDS Integers, Sequences, FiniteSets, TLC

(***************************************************************************)
(* Bounds of the model.                                                    *)
(***************************************************************************)
\* elements of the export a first run may meet; versions of the export
MaxFileLen == 2
MaxExports == 2
MaxTime == 2
MaxRuns == 2
MaxFaults == 1
\* heart-rate values handed to the validator alone
MaxHeartRate == 260
\* process_batch_size / batch_size and checkpoint_interval, scaled down
ProcessBatchSize == 2
CheckpointInterval == 2
\* the preview sample size (100 accepted points), scaled down
PreviewLimit == 1
\* points in a list handed to the writer alone
MaxBatchArg == 3
\* category entries in a configuration file
MaxEntries == 2
\* values of the configured retry_delay_base
MaxRetryDelayBase == 3
\* sizes and modification times os.stat reports for the export
MaxSize == 2
MaxMtime == 2

(***************************************************************************)
(* Program constants.                                                      *)
(***************************************************************************)
MaxRetries == 3
HeartRateParseMax == 400
StreamingWindowHours == 1
DuplicateCheckWindowHours == 24
DefaultRetryDelayBase == 2
\* write_point: the default of its max_retries parameter, the base of its wait
WritePointMaxRetries == 3
WritePointDelayBase == 2

None == 0

(***************************************************************************)
(* Raw type identifiers.                                                   *)
(***************************************************************************)
HeartRate == "HKQuantityTypeIdentifierHeartRate"
ActiveEnergy == "HKQuantityTypeIdentifierActiveEnergyBurned"
BodyMass == "HKQuantityTypeIdentifierBodyMass"
SleepAnalysis == "HKCategoryTypeIdentifierSleepAnalysis"
WorkoutType == "HKWorkoutTypeIdentifier"
ActivitySummaryType == "HKActivitySummary"
StepCount == "HKQuantityTypeIdentifierStepCount"
BasalEnergy == "HKQuantityTypeIdentifierBasalEnergyBurned"

Categories == {"vitals", "activity", "sleep"}

\* ConfigManager._create_default_config: the category table
measurements_config ==
    [c \in Categories |->
        CASE c = "vitals" ->
               [types |-> {HeartRate}, measurement_name |-> "heartrate_bpm"]
          [] c = "activity" ->
               [types |-> {StepCount, ActiveEnergy, BasalEnergy, WorkoutType,
                           ActivitySummaryType},
                measurement_name |-> "energy_kcal"]
          [] c = "sleep" ->
               [types |-> {SleepAnalysis}, measurement_name |-> "sleep_duration_min"]]

Measurements == {measurements_config[c].measurement_name : c \in Categories}

\* a lookup that files every unlisted type under the activity category
find_measurement_category_or_activity(data_type) ==
    IF \E c \in Categories : data_type \in measurements_config[c].types
    THEN CHOOSE c \in Categories : data_type \in measurements_config[c].types
    ELSE "activity"

\* ConfigManager.find_measurement_category: first category whose type list
\* holds the type, or None
find_measurement_category(data_type) ==
    IF \E c \in Categories : data_type \in measurements_config[c].types
    THEN CHOOSE c \in Categories : data_type \in measurements_config[c].types
    ELSE "none"

\* ConfigManager.get_measurement_config(category).measurement_name
MeasurementName(category) == measurements_config[category].measurement_name

(***************************************************************************)
(* Validation rules.  A rule carries the keys it defines: hasRange is      *)
(* ('min' in rules and 'max' in rules), hasTypical likewise.               *)
(***************************************************************************)
NoRule == [defined |-> FALSE, hasRange |-> FALSE, min |-> 0, max |-> 0,
           hasTypical |-> FALSE, typical_min |-> 0, typical_max |-> 0]

\* the heart-rate rule of the category configuration (values of the
\* validator's built-in heart_rate rule)
HeartRateRule == [defined |-> TRUE, hasRange |-> TRUE, min |-> 30, max |-> 250,
                  hasTypical |-> TRUE, typical_min |-> 40, typical_max |-> 200]

\* HealthDataValidator._fallback_rules['heart_rate']: keyed min_value/max_value,
\* so 'min'/'max' are absent while typical_min/typical_max are present
FallbackHeartRateRule ==
    [defined |-> TRUE, hasRange |-> FALSE, min |-> 0, max |-> 0,
     hasTypical |-> TRUE, typical_min |-> 40, typical_max |-> 200]

\* the other built-in rules (active_calories, resting_calories,
\* sleep_duration): the same keys as the heart_rate one; their numbers are
\* never compared here
FallbackOtherRule ==
    [defined |-> TRUE, hasRange |-> FALSE, min |-> 0, max |-> 0,
     hasTypical |-> TRUE, typical_min |-> 0, typical_max |-> 0]

ConfigKinds == {"default", "rules", "novalidation"}

\* ConfigManager.is_validation_enabled
is_validation_enabled(cfg, category) == cfg # "novalidation"

\* ConfigManager.get_validation_rules(category)[field]
get_validation_rules(cfg, category, field) ==
    IF cfg = "rules" /\ category = "vitals" /\ field = "value"
    THEN HeartRateRule
    ELSE NoRule

(***************************************************************************)
(* Input elements.  An element is one Record, Workout or ActivitySummary   *)
(* of the export: its kind, raw type, value and start time.  A time of     *)
(* BadTime is a start date neither accepted format parses.                 *)
(***************************************************************************)
BadTime == -1
Times == 1..MaxTime

Rec(type, value, time) ==
    [kind |-> "record", type |-> type, value |-> value, time |-> time]

Elements ==
    {Rec(HeartRate, 72, t) : t \in Times}
    \cup {Rec(HeartRate, 500, 1), Rec(HeartRate, 72, BadTime),
          Rec(ActiveEnergy, 100, 1), Rec(BodyMass, 70, 1),
          [kind |-> "workout", type |-> "HKWorkoutActivityTypeRunning",
           value |-> 300, time |-> 1, duration |-> 1800, distance |-> 5],
          [kind |-> "activity", type |-> ActivitySummaryType,
           value |-> 400, time |-> 2]}

\* the key of processed_counts / resume_position for an element kind
KindKey(kind) ==
    CASE kind = "record" -> "records"
      [] kind = "workout" -> "workouts"
      [] kind = "activity" -> "activities"

ZeroPosition == [records |-> 0, workouts |-> 0, activities |-> 0]

SumPosition(p) == p.records + p.workouts + p.activities

(***************************************************************************)
(* Record parser.  A parser returns a point or NoPoint (None).             *)
(***************************************************************************)
NoPoint == [type |-> "", measurement |-> "", time |-> None, value |-> 0]

Point(type, measurement, time, value) ==
    [type |-> type, measurement |-> measurement, time |-> time, value |-> value]

\* HealthDataParser.parse_datetime: TRUE when one of the two formats parses
parse_datetime_ok(time) == time \in Times

\* an attribute the element does not have (or has empty), and one whose
\* text float() does not parse
NoValue == -1000
BadValue == -1001

\* HealthDataParser.KM_TO_METERS
KM_TO_METERS == 1000

\* float(element.get(name, 0)): TRUE when it raises ValueError
float_raises(v) == v = BadValue

\* float(element.get(name, 0))
float_or_zero(v) == IF v = NoValue THEN 0 ELSE v

\* HealthDataParser.parse_generic_quantity
parse_generic_quantity(e) ==
    IF e.value = NoValue \/ e.time = None THEN NoPoint
    ELSE IF float_raises(e.value) THEN NoPoint
    ELSE IF ~parse_datetime_ok(e.time) THEN NoPoint
    ELSE Point(e.type, "generic_quantity", e.time, e.value)

\* HealthDataParser.parse_category
parse_category(e) ==
    IF e.time = None THEN NoPoint
    ELSE IF ~parse_datetime_ok(e.time) THEN NoPoint
    ELSE Point(e.type, "generic_category", e.time, 1)

\* HealthDataParser.parse_heart_rate
parse_heart_rate(e) ==
    IF e.type # HeartRate THEN NoPoint
    ELSE IF e.value = NoValue \/ e.time = None THEN NoPoint
    ELSE IF float_raises(e.value) THEN NoPoint
    ELSE IF e.value <= 0 \/ e.value > HeartRateParseMax THEN NoPoint
    ELSE IF ~parse_datetime_ok(e.time) THEN NoPoint
    ELSE Point(HeartRate, "heartrate_bpm", e.time, e.value)

\* HealthDataParser.parse_calories
parse_calories(e) ==
    IF e.type \notin {BasalEnergy, ActiveEnergy} THEN NoPoint
    ELSE parse_generic_quantity(e)

\* HealthDataParser.parse_sleep
parse_sleep(e) ==
    IF e.type # SleepAnalysis THEN NoPoint ELSE parse_category(e)

\* HealthDataParser.parse_workout
parse_workout(e) ==
    IF e.type = "" \/ e.time = None THEN NoPoint
    ELSE IF float_raises(e.duration) \/ float_raises(e.distance)
            \/ float_raises(e.value)
    THEN NoPoint
    ELSE IF float_or_zero(e.duration) < 0
            \/ float_or_zero(e.distance) * KM_TO_METERS < 0
            \/ float_or_zero(e.value) < 0
    THEN NoPoint
    ELSE IF ~parse_datetime_ok(e.time) THEN NoPoint
    ELSE Point(WorkoutType, "energy_kcal", e.time, float_or_zero(e.value))

\* HealthDataParser.parse_workout: the fields of the returned point
workout_fields(e) ==
    [value |-> float_or_zero(e.value),
     duration |-> float_or_zero(e.duration),
     distance |-> float_or_zero(e.distance) * KM_TO_METERS]

\* HealthDataParser.parse_generic_quantity: the energy_type tag, "" when the
\* point has none
energy_type(t) ==
    IF t \in {ActiveEnergy, BasalEnergy}           \* 'Energy' in record_type
    THEN (IF t = ActiveEnergy THEN "active"       \* 'Active' in record_type
          ELSE "resting")
    ELSE ""

\* HealthDataParser.parse_activity
parse_activity(e) ==
    IF e.time = None \/ ~parse_datetime_ok(e.time) THEN NoPoint
    ELSE Point(ActivitySummaryType, "energy_kcal", e.time, e.value)

\* the substring and prefix tests on the raw type, over the modelled types
StartsWithQuantityOrData(t) ==
    t \in {HeartRate, ActiveEnergy, BasalEnergy, StepCount, BodyMass}
StartsWithCategory(t) == t \in {SleepAnalysis}
ContainsHeartRate(t) == t \in {HeartRate}
ContainsEnergyOrSteps(t) == t \in {ActiveEnergy, BasalEnergy, StepCount}
ContainsSleep(t) == t \in {SleepAnalysis}

\* the parser the streaming loop picks for a record of a configured type
StreamingParseRecord(e) ==
    IF StartsWithQuantityOrData(e.type) THEN parse_generic_quantity(e)
    ELSE IF StartsWithCategory(e.type) THEN parse_category(e)
    ELSE IF ContainsHeartRate(e.type) THEN parse_heart_rate(e)
    ELSE IF ContainsEnergyOrSteps(e.type) THEN parse_calories(e)
    ELSE IF ContainsSleep(e.type) THEN parse_sleep(e)
    ELSE parse_generic_quantity(e)

(***************************************************************************)
(* Validator.  A verdict holds the number of errors and of warnings;       *)
(* is_valid is (errors = 0).                                               *)
(***************************************************************************)
Verdict(errors, warnings) ==
    [is_valid |-> (errors = 0), errors |-> errors, warnings |-> warnings]

\* HealthDataValidator._validate_field_with_rules
validate_field_with_rules(value, rules) ==
    LET errors == IF rules.hasRange /\ (value < rules.min \/ value > rules.max)
                  THEN 1 ELSE 0
        warnings == IF rules.hasTypical /\ errors = 0
                       /\ (value < rules.typical_min \/ value > rules.typical_max)
                    THEN 1 ELSE 0
    IN  Verdict(errors, warnings)

\* HealthDataValidator._get_validation_rules: the configured rule of the
\* field, else the built-in rule of the data type
validator_get_validation_rules(cfg, data_type, field) ==
    LET category == find_measurement_category(data_type) IN
    IF category # "none" /\ is_validation_enabled(cfg, category)
       /\ get_validation_rules(cfg, category, field).defined
    THEN get_validation_rules(cfg, category, field)
    ELSE IF data_type = HeartRate THEN FallbackHeartRateRule
    ELSE IF data_type \in {ActiveEnergy, BasalEnergy, SleepAnalysis}
    THEN FallbackOtherRule
    ELSE NoRule

\* HealthDataValidator.validate_heart_rate, called without a motion context
validate_heart_rate(cfg, value) ==
    LET rules == validator_get_validation_rules(cfg, HeartRate, "value")
        errors == IF rules.defined /\ rules.hasRange
                     /\ (value < rules.min \/ value > rules.max)
                  THEN 1 ELSE 0
        warnings == IF rules.defined /\ ~rules.hasRange /\ rules.hasTypical
                       /\ (value < rules.typical_min \/ value > rules.typical_max)
                    THEN 1 ELSE 0
    IN  Verdict(errors, warnings)

\* HealthDataValidator.validate_generic_data_point
validate_generic_data_point(cfg, point) ==
    LET category == find_measurement_category(point.type) IN
    IF category = "none" THEN Verdict(0, 0)
    ELSE IF ~is_validation_enabled(cfg, category) THEN Verdict(0, 0)
    ELSE IF ~get_validation_rules(cfg, category, "value").defined THEN Verdict(0, 0)
    ELSE validate_field_with_rules(point.value,
                                   get_validation_rules(cfg, category, "value"))

\* HealthDataValidator.validate_data_point with a config manager
validate_data_point(cfg, point) == validate_generic_data_point(cfg, point)

\* HealthDataValidator._validate_numeric_field against one built-in rule
\* (min_value, max_value, typical_min, typical_max); a value of 0 is not
\* checked by validate_workout
validate_numeric_field(value, min_value, max_value, typical_min, typical_max) ==
    IF value = 0 THEN Verdict(0, 0)
    ELSE IF value < min_value \/ value > max_value THEN Verdict(1, 0)
    ELSE IF value < typical_min \/ value > typical_max THEN Verdict(0, 1)
    ELSE Verdict(0, 0)

\* HealthDataValidator.validate_workout (both validator modules): the three
\* fields against workout_duration, workout_distance and active_calories,
\* then the speed distance / duration * 3.6 in km/h, compared exactly
validate_workout(w) ==
    LET du == validate_numeric_field(w.duration, 60, 43200, 300, 7200)
        di == validate_numeric_field(w.distance, 0, 200000, 100, 50000)
        en == validate_numeric_field(w.value, 0, 8000, 0, 4000)
        checked == w.duration # 0 /\ w.distance # 0 /\ w.duration > 0
        over(kmh) == checked /\ w.distance * 36 > kmh * 10 * w.duration
        speedError == IF over(100) THEN 1 ELSE 0
        speedWarning ==
            IF over(100) THEN 0
            ELSE IF w.activity_type = "HKWorkoutActivityTypeRunning" /\ over(30) THEN 1
            ELSE IF w.activity_type = "HKWorkoutActivityTypeWalking" /\ over(12) THEN 1
            ELSE 0
    IN  Verdict(du.errors + di.errors + en.errors + speedError,
                du.warnings + di.warnings + en.warnings + speedWarning)

(***************************************************************************)
(* Import tracker.  The history document: the fingerprint recorded for the *)
(* export file (None when the file was never recorded) and                 *)
(* last_timestamps per measurement (None when never imported).             *)
(***************************************************************************)
EmptyHistory ==
    [imported_hash |-> None, last_timestamps |-> [m \in Measurements |-> None]]

\* a tracker that never recognises a file as imported
is_file_never_imported(history, file_hash) == FALSE

\* ImportTracker.is_file_already_imported
is_file_already_imported(history, file_hash) ==
    history.imported_hash # None /\ history.imported_hash = file_hash

\* ImportTracker.get_last_import_time
get_last_import_time(history, measurement) ==
    IF measurement \in DOMAIN history.last_timestamps
    THEN history.last_timestamps[measurement]
    ELSE None

\* a tracker that also imports a record as old as the last import
should_import_record_or_equal(history, record_time, measurement) ==
    LET last_import == get_last_import_time(history, measurement) IN
    IF last_import = None THEN TRUE ELSE record_time >= last_import

\* ImportTracker.should_import_record
should_import_record(history, record_time, measurement) ==
    LET last_import == get_last_import_time(history, measurement) IN
    IF last_import = None THEN TRUE ELSE record_time > last_import

\* ImportTracker.record_file_import
record_file_import(history, file_hash) ==
    [history EXCEPT !.imported_hash = file_hash]

\* a fingerprint of the size alone
get_file_size_hash(stat) ==
    IF ~stat.exists THEN -1 ELSE 1 + stat.size

\* ImportTracker.get_file_hash: the digest of "<st_size>_<st_mtime>", one
\* value per pair of size and modification time; the empty string (-1) when
\* os.stat raises
get_file_hash(stat) ==
    IF ~stat.exists THEN -1 ELSE 1 + stat.size * (MaxMtime + 1) + stat.mtime

\* ImportTracker.reset_history
reset_history(history) ==
    [history EXCEPT !.imported_hash = None,
                    !.last_timestamps = [m \in Measurements |-> None]]

(***************************************************************************)
(* Progress checkpoint.                                                    *)
(***************************************************************************)
ZeroStats ==
    [k \in {"errors", "written", "duplicates", "validation_errors",
            "unknown_types"} \cup Categories |-> 0]

\* ProgressCheckpoint._get_empty_checkpoint
EmptyCheckpoint ==
    [file_hash |-> None, processed_records |-> 0, processed_workouts |-> 0,
     processed_activities |-> 0, stats |-> ZeroStats]

\* a checkpoint that records the fingerprint and the statistics but not the
\* positions
CheckpointWithoutPosition(file_hash, processed_counts, stats) ==
    [file_hash |-> file_hash, processed_records |-> 0, processed_workouts |-> 0,
     processed_activities |-> 0, stats |-> stats]

\* ProgressCheckpoint.save_checkpoint: the document written
CheckpointOf(file_hash, processed_counts, stats) ==
    [file_hash |-> file_hash,
     processed_records |-> processed_counts.records,
     processed_workouts |-> processed_counts.workouts,
     processed_activities |-> processed_counts.activities,
     stats |-> stats]

\* a completion that leaves the checkpoint as it is
keep_checkpoint(checkpoint) == checkpoint

\* ProgressCheckpoint.clear_checkpoint: the document left behind
clear_checkpoint(checkpoint) == EmptyCheckpoint

\* ProgressCheckpoint.can_resume
can_resume(checkpoint, file_hash) ==
    checkpoint.file_hash = file_hash /\ checkpoint.processed_records > 0

\* ProgressCheckpoint.get_resume_position
get_resume_position(checkpoint) ==
    [records |-> checkpoint.processed_records,
     workouts |-> checkpoint.processed_workouts,
     activities |-> checkpoint.processed_activities]

(***************************************************************************)
(* Storage writer.  The store holds (measurement, time) pairs.             *)
(***************************************************************************)
\* InfluxDBWriter.get_measurement_category
get_measurement_category(data_type) ==
    IF find_measurement_category(data_type) = "none" THEN "other"
    ELSE find_measurement_category(data_type)

\* InfluxDBWriter.prepare_point: FALSE when it raises (no configuration)
PrepareOk(p) == get_measurement_category(p.type) \in Categories

\* a writer that keeps the measurement name the point carries
CarriedMeasurement(p) == p.measurement

\* InfluxDBWriter.prepare_point: the measurement of the prepared point
PreparedMeasurement(p) == MeasurementName(get_measurement_category(p.type))

\* ConfigManager._create_default_config: the tag whitelist of a category
config_tags(category) ==
    CASE category = "vitals" -> {"device", "source", "motion_context"}
      [] category = "activity" -> {"activity_type", "energy_type", "summary_type",
                                   "device", "source"}
      [] category = "sleep" -> {"state", "device", "source"}

\* a tag value of None
NoneTag == "None"

\* a strip that leaves the value as it is
keep_whitespace(v) == v

\* str.strip over the modelled tag values
strip(v) ==
    CASE v = " " -> ""
      [] v = " Watch " -> "Watch"
      [] OTHER -> v

\* a field table that renames nothing
keep_value_name(data_type) == "value"

\* InfluxDBWriter._get_field_name_for_type, over the modelled types
get_field_name_for_type(data_type) ==
    CASE data_type = HeartRate -> "heart_rate"
      [] data_type = BodyMass -> "weight"
      [] data_type = ActiveEnergy -> "active_energy"
      [] data_type = BasalEnergy -> "basal_energy"
      [] data_type = StepCount -> "steps"
      [] OTHER -> "value"

\* prepare_point: the whitelisted source tags with a value
KeptTags(p) ==
    {t \in config_tags(get_measurement_category(p.type)) \cap DOMAIN p.tags :
        p.tags[t] # NoneTag /\ strip(p.tags[t]) # ""}

\* prepare_point: the tags of the prepared point
prepare_tags(p) ==
    [k \in {"type"} \cup KeptTags(p) |->
        IF k \in KeptTags(p) THEN strip(p.tags[k]) ELSE p.type]

\* prepare_point: the fields of the prepared point
prepare_fields(p) ==
    LET others == DOMAIN p.fields \ {"value"}
        renamed == IF "value" \in DOMAIN p.fields
                   THEN {get_field_name_for_type(p.type)} ELSE {}
    IN  IF others \cup renamed = {} THEN [k \in {"value"} |-> 1]
        ELSE [k \in others \cup renamed |->
                 IF k \in others THEN p.fields[k] ELSE p.fields["value"]]

\* InfluxDBWriter.prepare_point, for a point whose category is configured
prepare_point(p) ==
    [measurement |-> PreparedMeasurement(p), time |-> p.time,
     tags |-> prepare_tags(p), fields |-> prepare_fields(p)]

\* a duplicate check that answers from the store even when the query raises
query_stored_timestamps(st, measurement, start_time, end_time, ok) ==
    {t \in Times : <<measurement, t>> \in st /\ t >= start_time /\ t <= end_time}

\* InfluxDBWriter.check_for_duplicates; ok = FALSE when the query raises
check_for_duplicates(st, measurement, start_time, end_time, ok) ==
    IF ~ok THEN {}
    ELSE {t \in Times : <<measurement, t>> \in st
                        /\ t >= start_time /\ t <= end_time}

MeasOf(points) == {points[i].measurement : i \in DOMAIN points}

IndexOf(points, m) == {i \in DOMAIN points : points[i].measurement = m}

\* the existing-timestamp set loaded for measurement m before a batch:
\* load_existing_data_cache / _load_streaming_duplicate_cache
LoadCache(points, st, m, window, qFail) ==
    LET timestamps == {points[i].time : i \in IndexOf(points, m)}
        min_time == CHOOSE t \in timestamps : \A u \in timestamps : t <= u
        max_time == CHOOSE t \in timestamps : \A u \in timestamps : t >= u
    IN  check_for_duplicates(st, m, min_time - window, max_time + window,
                             m \notin qFail)

\* InfluxDBWriter.is_duplicate, against the cache loaded for this call
DuplicateIndexes(points, st, window, qFail) ==
    {i \in DOMAIN points :
        points[i].time \in LoadCache(points, st, points[i].measurement, window, qFail)}

\* InfluxDBWriter.write_points_batch_streaming.  qFail: measurements whose
\* duplicate query raises; wFail: measurements whose write raises.
write_points_batch_streaming(points, st, qFail, wFail) ==
    LET dup == DuplicateIndexes(points, st, StreamingWindowHours, qFail)
        bad == {i \in DOMAIN points \ dup : ~PrepareOk(points[i])}
        prepared == (DOMAIN points \ dup) \ bad
        okIdx == {i \in prepared : points[i].measurement \notin wFail}
    IN  [written |-> Cardinality(okIdx),
         duplicates |-> Cardinality(dup),
         errors |-> Cardinality(bad) + Cardinality(prepared \ okIdx),
         store |-> st \cup {<<PreparedMeasurement(points[i]), points[i].time>> :
                              i \in okIdx}]

NoWrite(st) == [written |-> 0, duplicates |-> 0, errors |-> 0, store |-> st]

\* StreamingHealthDataProcessor.process_batch: the incremental filter
FilterIncremental(batch_data, history) ==
    LET keep(p) == IF p.measurement \in Measurements
                   THEN should_import_record(history, p.time, p.measurement)
                   ELSE TRUE
    IN  SelectSeq(batch_data, keep)

\* a flush that hands nothing to the writer
drop_batch(batch_data, incremental, history, st, qFail, wFail) == NoWrite(st)

\* StreamingHealthDataProcessor.process_batch
process_batch(batch_data, incremental, history, st, qFail, wFail) ==
    LET all_points == IF incremental THEN FilterIncremental(batch_data, history)
                      ELSE batch_data
    IN  IF all_points = <<>> THEN NoWrite(st)
        ELSE write_points_batch_streaming(all_points, st, qFail, wFail)

(***************************************************************************)
(* The streaming loop's treatment of one element: the point it yields (or  *)
(* NoPoint), the statistics key it increments ("" for none) and whether    *)
(* the validator was called.                                               *)
(***************************************************************************)
\* the measurement override and the validation branch, common to records
\* and workouts
AcceptOrReject(cfg, category, data, validate) ==
    LET named == [data EXCEPT !.measurement = MeasurementName(category)] IN
    IF data = NoPoint
    THEN [point |-> NoPoint, key |-> "", validated |-> FALSE, verdict |-> Verdict(0, 0)]
    ELSE IF validate /\ is_validation_enabled(cfg, category)
    THEN LET v == validate_data_point(cfg, named) IN
         IF v.is_valid
         THEN [point |-> named, key |-> category, validated |-> TRUE, verdict |-> v]
         ELSE [point |-> NoPoint, key |-> "validation_errors", validated |-> TRUE,
               verdict |-> v]
    ELSE [point |-> named, key |-> category, validated |-> FALSE,
          verdict |-> Verdict(0, 0)]

ElementOutcome(cfg, e) ==
    IF e.kind = "record"
    THEN LET category == find_measurement_category(e.type) IN
         IF category # "none"
         THEN AcceptOrReject(cfg, category, StreamingParseRecord(e), TRUE)
         ELSE [point |-> NoPoint, key |-> "unknown_types", validated |-> FALSE,
               verdict |-> Verdict(0, 0)]
    ELSE IF e.kind = "workout"
    THEN AcceptOrReject(cfg, find_measurement_category(WorkoutType),
                        parse_workout(e), TRUE)
    ELSE AcceptOrReject(cfg, find_measurement_category(ActivitySummaryType),
                        parse_activity(e), FALSE)

Bump(stats, key) ==
    IF key = "" THEN stats ELSE [stats EXCEPT ![key] = @ + 1]

ZeroValidation == [total_validated |-> 0, errors |-> 0, warnings |-> 0]

\* HealthDataValidator.validate_data_point: the statistics update
BumpValidation(vs, out) ==
    IF ~out.validated THEN vs
    ELSE [total_validated |-> vs.total_validated + 1,
          errors |-> vs.errors + (IF out.verdict.errors > 0 THEN 1 ELSE 0),
          warnings |-> vs.warnings + (IF out.verdict.warnings > 0 THEN 1 ELSE 0)]

\* a preview sample that counts heart-rate points only
AcceptedVitals(stats) == stats["vitals"]

\* sum of the per-category counters of the statistics
AcceptedTotal(stats) == stats["vitals"] + stats["activity"] + stats["sleep"]

(***************************************************************************)
(* Standard (whole-file) import: collect_data_points, the tracker's        *)
(* filter and update, and write_points_batch.                              *)
(***************************************************************************)
\* collect_data_points: what one element contributes.  list is the
\* data_points key the entry is appended to.
StdValidated(cfg, data, list) ==
    IF data = NoPoint
    THEN [point |-> NoPoint, list |-> "errors", validated |-> FALSE,
          verdict |-> Verdict(0, 0)]
    ELSE LET v == validate_data_point(cfg, data) IN
         [point |-> IF v.is_valid THEN data ELSE NoPoint,
          list |-> IF v.is_valid THEN list ELSE "errors",
          validated |-> TRUE, verdict |-> v]

CollectOutcome(cfg, e) ==
    IF e.kind = "record"
    THEN IF ContainsHeartRate(e.type)
         THEN StdValidated(cfg, parse_heart_rate(e), "vitals")
         ELSE IF ContainsEnergyOrSteps(e.type)
         THEN StdValidated(cfg, parse_calories(e), "activity")
         ELSE IF ContainsSleep(e.type)
         THEN StdValidated(cfg, parse_sleep(e), "sleep")
         ELSE [point |-> NoPoint, list |-> "errors", validated |-> FALSE,
               verdict |-> Verdict(0, 0)]
    ELSE IF e.kind = "workout"
    THEN StdValidated(cfg, parse_workout(e), "activity")
    ELSE IF parse_activity(e) = NoPoint
    THEN [point |-> NoPoint, list |-> "errors", validated |-> FALSE,
          verdict |-> Verdict(0, 0)]
    ELSE [point |-> parse_activity(e), list |-> "activity", validated |-> FALSE,
          verdict |-> Verdict(0, 0)]

RECURSIVE CollectList(_, _, _, _)
\* the points of the elements of kind `kind` that go to data_points[list],
\* in file order
CollectList(cfg, f, kind, list) ==
    IF f = <<>> THEN <<>>
    ELSE LET out == CollectOutcome(cfg, Head(f))
             rest == CollectList(cfg, Tail(f), kind, list)
         IN  IF Head(f).kind = kind /\ out.list = list THEN <<out.point>> \o rest
             ELSE rest

\* collect_data_points: records first, then workouts, then activity summaries
collect_data_points(cfg, f) ==
    [vitals |-> CollectList(cfg, f, "record", "vitals"),
     activity |-> CollectList(cfg, f, "record", "activity")
                  \o CollectList(cfg, f, "workout", "activity")
                  \o CollectList(cfg, f, "activity", "activity"),
     sleep |-> CollectList(cfg, f, "record", "sleep"),
     errors |-> Cardinality({i \in DOMAIN f : CollectOutcome(cfg, f[i]).list = "errors"})]

RECURSIVE CollectValidation(_, _, _)
CollectValidation(cfg, f, vs) ==
    IF f = <<>> THEN vs
    ELSE CollectValidation(cfg, Tail(f), BumpValidation(vs, CollectOutcome(cfg, Head(f))))

\* ImportTracker.filter_data_points_by_time
filter_data_points_by_time(history, data_points, incremental) ==
    IF ~incremental THEN data_points
    ELSE LET keepV(p) == should_import_record(history, p.time, "heartrate_bpm")
             keepA(p) == should_import_record(history, p.time, "energy_kcal")
             keepS(p) == should_import_record(history, p.time, "sleep_duration_min")
         IN  [vitals |-> SelectSeq(data_points.vitals, keepV),
              activity |-> SelectSeq(data_points.activity, keepA),
              sleep |-> SelectSeq(data_points.sleep, keepS),
              errors |-> data_points.errors]

MaxTimeIn(points) ==
    CHOOSE t \in {points[i].time : i \in DOMAIN points} :
        \A i \in DOMAIN points : t >= points[i].time

\* ImportTracker.update_last_timestamps
update_last_timestamps(history, data_points) ==
    [history EXCEPT !.last_timestamps =
        [m \in Measurements |->
            IF m = "heartrate_bpm" /\ data_points.vitals # <<>>
            THEN MaxTimeIn(data_points.vitals)
            ELSE IF m = "energy_kcal" /\ data_points.activity # <<>>
            THEN MaxTimeIn(data_points.activity)
            ELSE IF m = "sleep_duration_min" /\ data_points.sleep # <<>>
            THEN MaxTimeIn(data_points.sleep)
            ELSE history.last_timestamps[m]]]

\* StreamingHealthDataProcessor._create_data_points_for_tracker: an empty
\* list for every configured category
create_data_points_for_tracker ==
    [vitals |-> <<>>, activity |-> <<>>, sleep |-> <<>>, errors |-> 0]

\* a writer that gives every batch one attempt only
write_batch_single_attempt(outcomes) ==
    [ok |-> outcomes[1], attempts |-> 1]

\* InfluxDBWriter._write_batch_with_retry over the outcomes of the attempts
\* the store would give (outcomes[a] is TRUE when attempt a succeeds)
write_batch_with_retry(outcomes) ==
    IF \E a \in 1..MaxRetries : outcomes[a]
    THEN [ok |-> TRUE,
          attempts |-> CHOOSE a \in 1..MaxRetries :
                          outcomes[a] /\ \A b \in 1..(a - 1) : ~outcomes[b]]
    ELSE [ok |-> FALSE, attempts |-> MaxRetries]

\* _write_batch_with_retry: the waits between the attempts, in seconds
retry_waits(retry_delay_base, attempts) ==
    [k \in 1..(attempts - 1) |-> retry_delay_base ^ (k - 1)]

\* InfluxDBWriter.write_point with its default max_retries, over the store's
\* outcomes per attempt; duplicate: is_duplicate found the point in the cache
write_point(outcomes, duplicate) ==
    IF duplicate THEN [ok |-> TRUE, attempts |-> 0, waits |-> <<>>]
    ELSE LET attempts ==
                 IF \E a \in 1..WritePointMaxRetries : outcomes[a]
                 THEN CHOOSE a \in 1..WritePointMaxRetries :
                          outcomes[a] /\ \A b \in 1..(a - 1) : ~outcomes[b]
                 ELSE WritePointMaxRetries
         IN  [ok |-> \E a \in 1..WritePointMaxRetries : outcomes[a],
              attempts |-> attempts,
              waits |-> [k \in 1..(attempts - 1) |-> WritePointDelayBase ^ (k - 1)]]

\* the attempt outcomes of a store that fails the first nfail attempts
FailFirst(nfail) == [a \in 1..MaxRetries |-> a > nfail]

NumBatches(n) == (n + ProcessBatchSize - 1) \div ProcessBatchSize

\* a slicing that leaves the last point of every full batch out
BatchIndexesShort(n, k) ==
    {i \in 1..n : i > (k - 1) * ProcessBatchSize /\ i < k * ProcessBatchSize}

\* prepared_points[i:i + batch_size] of batch k
BatchIndexes(n, k) ==
    {i \in 1..n : i > (k - 1) * ProcessBatchSize /\ i <= k * ProcessBatchSize}

RECURSIVE BatchTotal(_, _)
\* the sum of len(batch) over the batches numbered in K
BatchTotal(n, K) ==
    IF K = {} THEN 0
    ELSE LET k == CHOOSE x \in K : TRUE
         IN  Cardinality(BatchIndexes(n, k)) + BatchTotal(n, K \ {k})

\* InfluxDBWriter.write_points_batch.  fails[k]: the number of leading
\* failed attempts the store gives batch k.
write_points_batch(points, st, qFail, fails) ==
    LET dup == DuplicateIndexes(points, st, DuplicateCheckWindowHours, qFail)
        bad == {i \in DOMAIN points \ dup : ~PrepareOk(points[i])}
        keep(i) == i \notin dup /\ i \notin bad
        prepared == SelectSeq([i \in DOMAIN points |-> i], keep)
        n == Len(prepared)
        res == [k \in 1..NumBatches(n) |-> write_batch_with_retry(FailFirst(fails[k]))]
        okBatches == {k \in 1..NumBatches(n) : res[k].ok}
        okIdx == {i \in 1..n : \E k \in okBatches : i \in BatchIndexes(n, k)}
    IN  [written |-> BatchTotal(n, okBatches),
         duplicates |-> Cardinality(dup),
         errors |-> Cardinality(bad) + BatchTotal(n, (1..NumBatches(n)) \ okBatches),
         store |-> st \cup {<<PreparedMeasurement(points[prepared[i]]),
                              points[prepared[i]].time>> : i \in okIdx},
         log |-> [n |-> Len(points), prepare_errors |-> Cardinality(bad),
                  query_failures |-> qFail,
                  sizes |-> [k \in 1..NumBatches(n) |-> Cardinality(BatchIndexes(n, k))],
                  store_failures |-> fails,
                  ok |-> [k \in 1..NumBatches(n) |-> res[k].ok],
                  attempts |-> [k \in 1..NumBatches(n) |-> res[k].attempts]]]

\* the number of points write_points_batch prepares
PreparedCount(points, st, qFail) ==
    Cardinality({i \in DOMAIN points :
                    i \notin DuplicateIndexes(points, st, DuplicateCheckWindowHours, qFail)
                    /\ PrepareOk(points[i])})

EmptyLog == [n |-> 0, prepare_errors |-> 0, query_failures |-> {},
            sizes |-> <<>>, store_failures |-> <<>>,
             ok |-> <<>>, attempts |-> <<>>]

(***************************************************************************)
(* State.                                                                  *)
(***************************************************************************)
VARIABLES
    file,             \* the export: a sequence of elements
    file_hash,        \* its fingerprint (size + mtime)
    cfg,              \* which category configuration is loaded
    store,            \* the time-series store
    import_history,   \* the import history document
    checkpoint_file,  \* the checkpoint document
    pc,               \* "idle", "loop" (between iterations), "mid" (inside one)
    run,              \* mode and flags of the current or last run
    resumed,          \* the run took the resume branch
    resume_position, processed_counts, last_checkpoint,
    batch_data, total_stats,
    pos,              \* index of the last element the generator consumed
    cur,              \* index of the element of the iteration under way
    brk,              \* the preview break was taken
    validation_stats, \* the validator's counters of the run
    outcome,          \* how the last run ended
    write_log,        \* the last batch write: failed queries, batches, attempts
    runs, faults,
    hr_value,         \* a heart-rate value handed to the validator alone
    verdict,          \* the result the validator returned for it
    retry_delay_base, \* the configured base of the backoff
    store_outcomes,   \* what the store answers to each attempt of one write
    write_result,     \* the result, attempts and waits of that write
    call,             \* a component called on its own: the function, its argument
    returned,         \* what that call returned
    file_stat         \* what os.stat reports for the export handed to the tracker

vars == <<file, file_hash, cfg, store, import_history, checkpoint_file, pc, run,
          resumed, resume_position, processed_counts, last_checkpoint,
          batch_data, total_stats, pos, cur, brk, validation_stats, outcome,
          write_log, runs, faults, hr_value, verdict, retry_delay_base,
          store_outcomes, write_result, call, returned, file_stat>>

inputVars == <<file, file_hash, cfg>>
valVars == <<hr_value, verdict>>
retryVars == <<retry_delay_base, store_outcomes, write_result>>
unitVars == <<call, returned, file_stat>>
loopVars == <<resume_position, processed_counts, last_checkpoint, batch_data,
              pos, cur, brk>>

RECURSIVE SeqsUpTo(_, _)
SeqsUpTo(S, n) ==
    IF n = 0 THEN {<<>>}
    ELSE LET shorter == SeqsUpTo(S, n - 1) IN
         shorter \cup {Append(s, x) : s \in {t \in shorter : Len(t) = n - 1}, x \in S}

\* a first export of one element
FirstExports == {<<e>> : e \in Elements}

NoVerdict == [by |-> "none", is_valid |-> TRUE, errors |-> 0, warnings |-> 0]

InitWith(files, values) ==
    /\ file \in files
    /\ hr_value \in values
    /\ verdict = NoVerdict
    /\ file_hash = 1
    /\ cfg \in ConfigKinds
    /\ store = {}
    /\ import_history = EmptyHistory
    /\ checkpoint_file = EmptyCheckpoint
    /\ pc = "idle"
    /\ run = [mode |-> "none", force |-> FALSE, incremental |-> FALSE,
              preview |-> FALSE]
    /\ resumed = FALSE
    /\ resume_position = ZeroPosition
    /\ processed_counts = ZeroPosition
    /\ last_checkpoint = 0
    /\ batch_data = <<>>
    /\ total_stats = ZeroStats
    /\ pos = 0
    /\ cur = 0
    /\ brk = FALSE
    /\ validation_stats = ZeroValidation
    /\ outcome = "none"
    /\ write_log = EmptyLog
    /\ runs = 0
    /\ faults = 0

NoResult == [by |-> "none", skipped |-> FALSE, ok |-> FALSE, attempts |-> 0,
             waits |-> <<>>]

\* no single write under way; the default configuration's backoff base
RetryIdle ==
    /\ retry_delay_base = DefaultRetryDelayBase
    /\ store_outcomes = FailFirst(0)
    /\ write_result = NoResult

NoReturn == [fn |-> "none"]

\* no component called on its own
UnitIdle ==
    /\ call = [fn |-> "none"]
    /\ returned = NoReturn
    /\ file_stat = [exists |-> TRUE, size |-> 1, mtime |-> 1]

Init == InitWith(FirstExports, {0}) /\ RetryIdle /\ UnitIdle

(***************************************************************************)
(* stream_xml_elements: the generator.                                     *)
(***************************************************************************)
\* the per-kind position of element i (current_position[kind] when yielded)
KindOrdinal(i) == Cardinality({j \in 1..i : file[j].kind = file[i].kind})

Yielded(i, rp) == KindOrdinal(i) > rp[KindKey(file[i].kind)]

HasNext == \E i \in (pos + 1)..Len(file) : Yielded(i, resume_position)

NextYield ==
    CHOOSE i \in (pos + 1)..Len(file) :
        /\ Yielded(i, resume_position)
        /\ \A j \in (pos + 1)..(i - 1) : ~Yielded(j, resume_position)

\* the process ends: its loop state is gone
ExitLoop ==
    /\ pc' = "idle"
    /\ resume_position' = ZeroPosition
    /\ processed_counts' = ZeroPosition
    /\ last_checkpoint' = 0
    /\ batch_data' = <<>>
    /\ pos' = 0
    /\ cur' = 0
    /\ brk' = FALSE

(***************************************************************************)
(* process_file_streaming.                                                 *)
(***************************************************************************)
StartStreaming(force, incremental, preview) ==
    /\ pc = "idle"
    /\ runs < MaxRuns
    /\ runs' = runs + 1
    /\ run' = [mode |-> "streaming", force |-> force, incremental |-> incremental,
               preview |-> preview]
    /\ validation_stats' = ZeroValidation
    /\ IF ~force /\ can_resume(checkpoint_file, file_hash)
       THEN /\ resume_position' = get_resume_position(checkpoint_file)
            /\ processed_counts' = get_resume_position(checkpoint_file)
            /\ last_checkpoint' = SumPosition(get_resume_position(checkpoint_file))
            /\ total_stats' = checkpoint_file.stats
            /\ resumed' = TRUE
            /\ pc' = "loop"
            /\ outcome' = "running"
       ELSE IF ~force /\ is_file_already_imported(import_history, file_hash)
       THEN /\ resume_position' = ZeroPosition
            /\ processed_counts' = ZeroPosition
            /\ last_checkpoint' = 0
            /\ total_stats' = ZeroStats
            /\ resumed' = FALSE
            /\ pc' = "idle"
            /\ outcome' = "noop"
       ELSE /\ resume_position' = ZeroPosition
            /\ processed_counts' = ZeroPosition
            /\ last_checkpoint' = 0
            /\ total_stats' = ZeroStats
            /\ resumed' = FALSE
            /\ pc' = "loop"
            /\ outcome' = "running"
    /\ batch_data' = <<>>
    /\ pos' = 0
    /\ cur' = 0
    /\ brk' = FALSE
    /\ UNCHANGED <<inputVars, store, import_history, checkpoint_file, write_log,
                   faults, valVars, retryVars, unitVars>>

\* the first part of an iteration: classify, parse, validate, accumulate
ProcessElement ==
    /\ pc = "loop"
    /\ ~brk
    /\ HasNext
    /\ LET out == ElementOutcome(cfg, file[NextYield]) IN
        /\ batch_data' = IF out.point = NoPoint THEN batch_data
                         ELSE Append(batch_data, out.point)
        /\ total_stats' = Bump(total_stats, out.key)
        /\ validation_stats' = BumpValidation(validation_stats, out)
    /\ cur' = NextYield
    /\ pc' = "mid"
    /\ UNCHANGED <<inputVars, store, import_history, checkpoint_file, run, resumed,
                   resume_position, processed_counts, last_checkpoint, pos, brk,
                   outcome, write_log, runs, faults, valVars, retryVars, unitVars>>

\* the sets of failing duplicate queries and failing writes a flush may meet
FaultChoices(points, budget) ==
    {f \in [q : SUBSET MeasOf(points), w : SUBSET MeasOf(points)] :
        Cardinality(f.q) + Cardinality(f.w) <= budget}

\* the points process_batch hands to the writer
HandedPoints(batch, incremental) ==
    IF incremental THEN FilterIncremental(batch, import_history) ELSE batch

MergeStats(stats, r) ==
    [stats EXCEPT !["written"] = @ + r.written,
                  !["duplicates"] = @ + r.duplicates,
                  !["errors"] = @ + r.errors]

\* a loop that never finds its batch full
batch_never_full(batch) == FALSE

\* the flush test of the loop: len(batch_data) >= self.process_batch_size
batch_full(batch) == Len(batch) >= ProcessBatchSize

\* the rest of an iteration: position update, batch flush, periodic
\* checkpoint, preview break
Advance ==
    /\ pc = "mid"
    /\ LET counts == [processed_counts EXCEPT
                          ![KindKey(file[cur].kind)] = KindOrdinal(cur)]
           full == batch_full(batch_data)
           flush == full /\ ~run.preview
           due == SumPosition(counts) - last_checkpoint >= CheckpointInterval
           save == due /\ ~run.preview
       IN
        /\ processed_counts' = counts
        /\ \E f \in FaultChoices(IF flush THEN HandedPoints(batch_data, run.incremental)
                                 ELSE <<>>, MaxFaults - faults),
              saveOk \in (IF save THEN BOOLEAN ELSE {TRUE}) :
            \E r \in {IF flush
                      THEN process_batch(batch_data, run.incremental, import_history,
                                         store, f.q, f.w)
                      ELSE NoWrite(store)} :
            LET nf == faults + Cardinality(f.q) + Cardinality(f.w)
                         + (IF saveOk THEN 0 ELSE 1)
                stats == MergeStats(total_stats, r)
            IN
              /\ nf <= MaxFaults
              /\ faults' = nf
              /\ store' = r.store
              /\ write_log' = IF flush THEN [EmptyLog EXCEPT !.query_failures = f.q]
                               ELSE write_log
              /\ total_stats' = stats
              /\ batch_data' = IF full THEN <<>> ELSE batch_data
              /\ checkpoint_file' = IF save /\ saveOk
                                    THEN CheckpointOf(file_hash, counts, stats)
                                    ELSE checkpoint_file
              /\ last_checkpoint' = IF due THEN SumPosition(counts) ELSE last_checkpoint
              /\ brk' = (run.preview /\ AcceptedTotal(stats) >= PreviewLimit)
    /\ pos' = cur
    /\ pc' = "loop"
    /\ UNCHANGED <<inputVars, import_history, run, resumed, resume_position, cur,
                   validation_stats, outcome, runs, valVars, retryVars, unitVars>>

\* after the loop: flush the remaining batch, update the tracker, clear the
\* checkpoint, return the statistics
Finish ==
    /\ pc = "loop"
    /\ brk \/ ~HasNext
    /\ LET flush == batch_data # <<>> /\ ~run.preview IN
       \E f \in FaultChoices(IF flush THEN HandedPoints(batch_data, run.incremental)
                             ELSE <<>>, MaxFaults - faults) :
         \E r \in {IF flush
                   THEN process_batch(batch_data, run.incremental, import_history,
                                      store, f.q, f.w)
                   ELSE NoWrite(store)} :
         LET stats == MergeStats(total_stats, r) IN
           /\ faults' = faults + Cardinality(f.q) + Cardinality(f.w)
           /\ store' = r.store
           /\ write_log' = IF flush THEN [EmptyLog EXCEPT !.query_failures = f.q]
                            ELSE write_log
           /\ total_stats' = stats
           /\ import_history' = IF ~run.preview /\ stats["written"] > 0
                                THEN record_file_import(
                                         update_last_timestamps(
                                             import_history,
                                             create_data_points_for_tracker),
                                         file_hash)
                                ELSE import_history
           /\ checkpoint_file' = IF run.preview THEN checkpoint_file
                                 ELSE clear_checkpoint(checkpoint_file)
    /\ outcome' = "completed"
    /\ ExitLoop
    /\ UNCHANGED <<inputVars, run, resumed, validation_stats, runs, valVars, retryVars, unitVars>>

\* the handlers of KeyboardInterrupt and of Exception around the loop: save
\* a checkpoint (unless preview) and re-raise
RaiseFromLoop(how) ==
    /\ \E saveOk \in (IF run.preview THEN {TRUE} ELSE BOOLEAN) :
        /\ faults + (IF saveOk THEN 0 ELSE 1) <= MaxFaults
        /\ faults' = faults + (IF saveOk THEN 0 ELSE 1)
        /\ checkpoint_file' = IF ~run.preview /\ saveOk
                              THEN CheckpointOf(file_hash, processed_counts, total_stats)
                              ELSE checkpoint_file
    /\ outcome' = how
    /\ ExitLoop
    /\ UNCHANGED <<inputVars, store, import_history, run, resumed, total_stats,
                   validation_stats, write_log, runs, valVars, retryVars, unitVars>>

\* KeyboardInterrupt: delivered between any two steps of the loop
Interrupt ==
    /\ pc \in {"loop", "mid"}
    /\ RaiseFromLoop("interrupted")

\* an exception raised by the generator while reading the input
StreamError ==
    /\ pc = "loop"
    /\ faults < MaxFaults
    /\ RaiseFromLoop("failed")

(***************************************************************************)
(* main(): the standard, non-streaming import of the whole file.           *)
(***************************************************************************)
AllPoints(data_points) ==
    data_points.vitals \o data_points.activity \o data_points.sleep

\* the statistics a standard run reports: the write statistics and the
\* lengths of the (filtered) category lists
StandardStats(data_points, w) ==
    [ZeroStats EXCEPT !["written"] = w.written,
                      !["duplicates"] = w.duplicates,
                      !["errors"] = w.errors,
                      !["vitals"] = Len(data_points.vitals),
                      !["activity"] = Len(data_points.activity),
                      !["sleep"] = Len(data_points.sleep)]

RunStandard(force, incremental, preview) ==
    /\ pc = "idle"
    /\ runs < MaxRuns
    /\ runs' = runs + 1
    /\ run' = [mode |-> "standard", force |-> force, incremental |-> incremental,
               preview |-> preview]
    /\ resumed' = FALSE
    /\ UNCHANGED <<inputVars, checkpoint_file, pc, loopVars, valVars, retryVars, unitVars>>
    /\ IF ~force /\ is_file_already_imported(import_history, file_hash)
       THEN /\ outcome' = "noop"
            /\ total_stats' = ZeroStats
            /\ validation_stats' = ZeroValidation
            /\ write_log' = EmptyLog
            /\ UNCHANGED <<store, import_history, faults>>
       ELSE \E data_points \in {filter_data_points_by_time(
                                    import_history, collect_data_points(cfg, file),
                                    incremental)} :
            \E all_points \in {AllPoints(data_points)} :
            /\ validation_stats' = CollectValidation(cfg, file, ZeroValidation)
            /\ IF all_points = <<>> \/ preview
               THEN /\ outcome' = IF all_points = <<>> THEN "nodata" ELSE "previewed"
                    /\ total_stats' = StandardStats(data_points, NoWrite(store))
                    /\ write_log' = EmptyLog
                    /\ UNCHANGED <<store, import_history, faults>>
               ELSE \E qFail \in SUBSET MeasOf(all_points) :
                    \E fails \in [1..NumBatches(PreparedCount(all_points, store, qFail))
                                    -> 0..MaxRetries] :
                    \E nf \in {faults + Cardinality(qFail)
                                  + Cardinality({k \in DOMAIN fails : fails[k] > 0})} :
                        /\ nf <= MaxFaults
                        /\ \E w \in {write_points_batch(all_points, store, qFail, fails)} :
                            /\ faults' = nf
                            /\ store' = w.store
                            /\ write_log' = w.log
                            /\ total_stats' = StandardStats(data_points, w)
                            /\ import_history' =
                                  IF w.written > 0
                                  THEN record_file_import(
                                           update_last_timestamps(import_history,
                                                                  data_points),
                                           file_hash)
                                  ELSE import_history
                            /\ outcome' = "completed"

\* a newer export replaces the file: the old content plus one element
ModifyFile(e) ==
    /\ pc = "idle"
    /\ runs > 0
    /\ file_hash < MaxExports
    /\ file' = Append(file, e)
    /\ file_hash' = file_hash + 1
    /\ UNCHANGED <<cfg, store, import_history, checkpoint_file, pc, run, resumed,
                   loopVars, total_stats, validation_stats, outcome, write_log,
                   runs, faults, valVars, retryVars, unitVars>>

(***************************************************************************)
(* The validator called on its own with one heart-rate value.              *)
(***************************************************************************)
VerdictBy(by, v) ==
    [by |-> by, is_valid |-> v.is_valid, errors |-> v.errors, warnings |-> v.warnings]

\* validate_data_point on a heart-rate point: the result and the counters
ValidateDataPoint ==
    /\ pc = "idle"
    /\ verdict = NoVerdict
    /\ \E v \in {validate_data_point(cfg, Point(HeartRate, "heartrate_bpm", 1, hr_value))} :
        /\ verdict' = VerdictBy("validate_data_point", v)
        /\ validation_stats' =
              BumpValidation(validation_stats,
                             [point |-> NoPoint, key |-> "", validated |-> TRUE,
                              verdict |-> v])
    /\ UNCHANGED <<inputVars, store, import_history, checkpoint_file, pc, run, resumed,
                   loopVars, total_stats, outcome, write_log, runs, faults, hr_value,
                   retryVars, unitVars>>

\* validate_heart_rate called directly
ValidateHeartRate ==
    /\ pc = "idle"
    /\ verdict = NoVerdict
    /\ verdict' = VerdictBy("validate_heart_rate", validate_heart_rate(cfg, hr_value))
    /\ UNCHANGED <<inputVars, store, import_history, checkpoint_file, pc, run, resumed,
                   loopVars, total_stats, validation_stats, outcome, write_log, runs,
                   faults, hr_value, retryVars, unitVars>>

(***************************************************************************)
(* The writer's retrying writes called on their own.                       *)
(***************************************************************************)
ResultBy(by, skipped, r, waits) ==
    [by |-> by, skipped |-> skipped, ok |-> r.ok, attempts |-> r.attempts,
     waits |-> waits]

\* _write_batch_with_retry on one batch
WriteBatchWithRetry ==
    /\ pc = "idle"
    /\ write_result = NoResult
    /\ \E r \in {write_batch_with_retry(store_outcomes)} :
          write_result' = ResultBy("_write_batch_with_retry", FALSE, r,
                                   retry_waits(retry_delay_base, r.attempts))
    /\ UNCHANGED <<inputVars, store, import_history, checkpoint_file, pc, run, resumed,
                   loopVars, total_stats, validation_stats, outcome, write_log, runs,
                   faults, valVars, retry_delay_base, store_outcomes,
                   unitVars>>

\* write_point on one point
WritePoint(duplicate) ==
    /\ pc = "idle"
    /\ write_result = NoResult
    /\ \E r \in {write_point(store_outcomes, duplicate)} :
          write_result' = ResultBy("write_point", duplicate, r, r.waits)
    /\ UNCHANGED <<inputVars, store, import_history, checkpoint_file, pc, run, resumed,
                   loopVars, total_stats, validation_stats, outcome, write_log, runs,
                   faults, valVars, retry_delay_base, store_outcomes,
                   unitVars>>

(***************************************************************************)
(* The writer's prepare_point and batch writes called on their own.        *)
(***************************************************************************)
FieldValue(k) ==
    CASE k = "value" -> 72
      [] k = "duration" -> 60
      [] k = "heart_rate" -> 80

DataPoint(type, measurement, time, tags, fields) ==
    [type |-> type, measurement |-> measurement, time |-> time, tags |-> tags,
     fields |-> fields]

\* the points prepare_point is called with; BodyMass is in no category of
\* the default configuration.  The `tags` dict holds any of the keys with
\* any of the values, the `fields` dict any of the keys.
DataPoints ==
    {DataPoint(t, m, 1, tg, f) :
        t \in {HeartRate, StepCount, WorkoutType, BodyMass},
        m \in {"heartrate_bpm", "generic_quantity"},
        tg \in UNION {[K -> {NoneTag, "", " ", " Watch "}] :
                         K \in SUBSET {"device", "unit", "activity_type"}},
        f \in {[k \in K |-> FieldValue(k)] :
                  K \in SUBSET {"value", "duration", "heart_rate"}}}

\* the points of the lists the batch writes are called with
BatchPoints ==
    {DataPoint(HeartRate, "heartrate_bpm", 1,
               [k \in {"device", "unit"} |-> IF k = "device" THEN " Watch " ELSE " "],
               [k \in {"value"} |-> 72]),
     DataPoint(BodyMass, "generic_quantity", 1,
               [k \in {"device"} |-> ""], [k \in {"value"} |-> 70]),
     DataPoint(WorkoutType, "energy_kcal", 2,
               [k \in {"activity_type", "device"} |->
                   IF k = "device" THEN NoneTag ELSE " Watch "],
               [k \in {"value", "duration"} |-> FieldValue(k)]),
     DataPoint(HeartRate, "generic_quantity", 2, <<>>, <<>>)}

\* the prepared points a batch write hands to the store, in list order
HandedToStore(points, st, window, qFail) ==
    LET keep(q) == /\ q.time \notin LoadCache(points, st, q.measurement, window, qFail)
                   /\ PrepareOk(q)
        kept == SelectSeq(points, keep)
    IN  [i \in DOMAIN kept |-> prepare_point(kept[i])]

\* what a batch write returned, the store it was called on, the prepared
\* points it handed to the store and the calls of the store that raised
WriteReturn(fn, w, handed, before, failed) ==
    [fn |-> fn, written |-> w.written, duplicates |-> w.duplicates,
     errors |-> w.errors, handed |-> handed, before |-> before, failed |-> failed]

\* an earlier import left points of the list in the store
SeedStore ==
    /\ pc = "idle"
    /\ call.fn \in {"write_points_batch", "write_points_batch_streaming"}
    /\ returned = NoReturn
    /\ store = {}
    /\ store' \in (SUBSET {<<call.arg[i].measurement, call.arg[i].time>> :
                               i \in DOMAIN call.arg}) \ {{}}
    /\ UNCHANGED <<inputVars, import_history, checkpoint_file, pc, run, resumed,
                   loopVars, total_stats, validation_stats, outcome, write_log, runs,
                   faults, valVars, retryVars, unitVars>>

\* prepare_point on one data point
PreparePoint ==
    /\ pc = "idle"
    /\ call.fn = "prepare_point"
    /\ returned = NoReturn
    /\ returned' = IF PrepareOk(call.arg)
                   THEN [fn |-> call.fn, raised |-> FALSE,
                         point |-> prepare_point(call.arg)]
                   ELSE [fn |-> call.fn, raised |-> TRUE]
    /\ UNCHANGED <<inputVars, store, import_history, checkpoint_file, pc, run, resumed,
                   loopVars, total_stats, validation_stats, outcome, write_log, runs,
                   faults, valVars, retryVars, call, file_stat>>

\* write_points_batch on a list of data points: any of the duplicate
\* queries may raise, any batch may fail some or all of its attempts
WritePointsBatch ==
    /\ pc = "idle"
    /\ call.fn = "write_points_batch"
    /\ returned = NoReturn
    /\ \E qFail \in SUBSET MeasOf(call.arg) :
       \E fails \in [1..NumBatches(PreparedCount(call.arg, store, qFail))
                       -> {0, 1, MaxRetries}] :
       \E w \in {write_points_batch(call.arg, store, qFail, fails)} :
          /\ store' = w.store
          /\ write_log' = w.log
          /\ returned' = WriteReturn(call.fn, w,
                                     HandedToStore(call.arg, store,
                                                   DuplicateCheckWindowHours, qFail),
                                     store,
                                     Cardinality(qFail)
                                        + Cardinality({k \in DOMAIN fails : fails[k] > 0}))
    /\ UNCHANGED <<inputVars, import_history, checkpoint_file, pc, run, resumed,
                   loopVars, total_stats, validation_stats, outcome, runs,
                   faults, valVars, retryVars, call, file_stat>>

\* write_points_batch_streaming on a list of data points: any of the
\* duplicate queries and any of the writes (one per measurement) may raise
WritePointsBatchStreaming ==
    /\ pc = "idle"
    /\ call.fn = "write_points_batch_streaming"
    /\ returned = NoReturn
    /\ \E qFail \in SUBSET MeasOf(call.arg) :
       \E wFail \in SUBSET MeasOf(call.arg) :
       \E w \in {IF call.arg = <<>> THEN NoWrite(store)
                  ELSE write_points_batch_streaming(call.arg, store, qFail, wFail)} :
          /\ store' = w.store
          /\ returned' = WriteReturn(call.fn, w,
                                     HandedToStore(call.arg, store,
                                                   StreamingWindowHours, qFail),
                                     store,
                                     Cardinality(qFail) + Cardinality(wFail))
    /\ UNCHANGED <<inputVars, import_history, checkpoint_file, pc, run, resumed,
                   loopVars, total_stats, validation_stats, outcome, write_log, runs,
                   faults, valVars, retryVars, call, file_stat>>

(***************************************************************************)
(* Reference results of a run.                                             *)
(***************************************************************************)
RECURSIVE CountsOfRun(_, _, _)
\* the statistics keys one pass of the loop over f increments, from stats
CountsOfRun(c, f, stats) ==
    IF f = <<>> THEN stats
    ELSE CountsOfRun(c, Tail(f), Bump(stats, ElementOutcome(c, Head(f)).key))

\* the statistics of one uninterrupted, non-preview streaming run over the file
UninterruptedCounts == CountsOfRun(cfg, file, ZeroStats)

(***************************************************************************)
(* Specifications.                                                         *)
(***************************************************************************)
\* the whole importer: both import paths over an export that starts with
\* one element and is replaced by a longer one between runs
Next ==
    \/ \E force \in BOOLEAN, incremental \in BOOLEAN, preview \in BOOLEAN :
          StartStreaming(force, incremental, preview)
    \/ ProcessElement
    \/ Advance
    \/ Finish
    \/ Interrupt
    \/ StreamError
    \/ \E force \in BOOLEAN, incremental \in BOOLEAN, preview \in BOOLEAN :
          RunStandard(force, incremental, preview)
    \/ \E e \in Elements : ModifyFile(e)

Spec == Init /\ [][Next]_vars

\* every export of up to MaxFileLen elements
InitFiles ==
    InitWith(SeqsUpTo(Elements, MaxFileLen) \ {<<>>}, {0}) /\ RetryIdle /\ UnitIdle

\* the streaming path alone, over every export
NextStream ==
    \/ \E force \in BOOLEAN, incremental \in BOOLEAN, preview \in BOOLEAN :
          StartStreaming(force, incremental, preview)
    \/ ProcessElement
    \/ Advance
    \/ Finish
    \/ Interrupt
    \/ StreamError

SpecStream == InitFiles /\ [][NextStream]_vars

\* the standard path alone, over every export and its replacements
NextStandard ==
    \/ \E force \in BOOLEAN, incremental \in BOOLEAN, preview \in BOOLEAN :
          RunStandard(force, incremental, preview)
    \/ \E e \in Elements : ModifyFile(e)

SpecStandard == InitFiles /\ [][NextStandard]_vars

\* the validator alone, over every heart-rate value up to MaxHeartRate
InitValidate ==
    /\ InitWith(FirstExports, 0..MaxHeartRate) /\ file = <<Rec(HeartRate, 72, 1)>>
    /\ RetryIdle /\ UnitIdle

NextValidate ==
    \/ ValidateDataPoint
    \/ ValidateHeartRate

SpecValidate == InitValidate /\ [][NextValidate]_vars

\* one retrying write alone, over every sequence of store outcomes and every
\* configured backoff base up to MaxRetryDelayBase
InitRetry ==
    /\ InitWith(FirstExports, {0}) /\ file = <<Rec(HeartRate, 72, 1)>>
    /\ retry_delay_base \in 1..MaxRetryDelayBase
    /\ store_outcomes \in [1..MaxRetries -> BOOLEAN]
    /\ write_result = NoResult
    /\ UnitIdle

NextRetry ==
    \/ WriteBatchWithRetry
    \/ \E duplicate \in BOOLEAN : WritePoint(duplicate)

SpecRetry == InitRetry /\ [][NextRetry]_vars

(***************************************************************************)
(* The record parsers called on their own.                                 *)
(***************************************************************************)
\* parse_workout on one Workout element; every exception it names is caught
ParseWorkout ==
    /\ pc = "idle"
    /\ call.fn = "parse_workout"
    /\ returned = NoReturn
    /\ returned' = [fn |-> call.fn, raised |-> FALSE,
                    point |-> parse_workout(call.arg),
                    fields |-> IF parse_workout(call.arg) = NoPoint THEN <<>>
                               ELSE workout_fields(call.arg)]
    /\ UNCHANGED <<inputVars, store, import_history, checkpoint_file, pc, run, resumed,
                   loopVars, total_stats, validation_stats, outcome, write_log, runs,
                   faults, valVars, retryVars, call, file_stat>>

\* parse_heart_rate on one Record element without metadata entries
ParseHeartRate ==
    /\ pc = "idle"
    /\ call.fn = "parse_heart_rate"
    /\ returned = NoReturn
    /\ returned' = [fn |-> call.fn, raised |-> FALSE,
                    point |-> parse_heart_rate(call.arg)]
    /\ UNCHANGED <<inputVars, store, import_history, checkpoint_file, pc, run, resumed,
                   loopVars, total_stats, validation_stats, outcome, write_log, runs,
                   faults, valVars, retryVars, call, file_stat>>

\* parse_calories on one Record element
ParseCalories ==
    /\ pc = "idle"
    /\ call.fn = "parse_calories"
    /\ returned = NoReturn
    /\ returned' = [fn |-> call.fn, raised |-> FALSE,
                    point |-> parse_calories(call.arg),
                    energy_type |-> IF parse_calories(call.arg) = NoPoint THEN ""
                                    ELSE energy_type(call.arg.type)]
    /\ UNCHANGED <<inputVars, store, import_history, checkpoint_file, pc, run, resumed,
                   loopVars, total_stats, validation_stats, outcome, write_log, runs,
                   faults, valVars, retryVars, call, file_stat>>

(***************************************************************************)
(* ConfigManager construction.  A configuration file is: whether it        *)
(* exists, whether it opens and parses as YAML, what the document is       *)
(* (nothing, a list, a mapping), what its `measurements` key holds, and    *)
(* what each category entry under it is (a full mapping, an empty mapping, *)
(* plain text).                                                            *)
(***************************************************************************)
\* ConfigManager._parse_config: TRUE when it raises (AttributeError on
\* .get / .items of something that is not a mapping)
parse_config_raises(f) ==
    \/ f.top # "mapping"
    \/ f.measurements \in {"null", "list"}
    \/ f.measurements = "mapping" /\ \E i \in DOMAIN f.entries : f.entries[i] = "text"

\* ConfigManager._parse_config: measurements_config when it does not raise
parse_config(f) ==
    \* the category names of the entries, in document order
    LET EntryName(i) == IF i = 1 THEN "vitals" ELSE "custom" IN
    IF f.measurements = "absent" THEN <<>>
    ELSE [c \in {EntryName(i) : i \in DOMAIN f.entries} |->
             LET i == CHOOSE j \in DOMAIN f.entries : EntryName(j) = c IN
             IF f.entries[i] = "full"
             THEN [types |-> {HeartRate}, measurement_name |-> "heartrate_bpm"]
             ELSE [types |-> {}, measurement_name |-> ""]]

\* ConfigManager._load_config: measurements_config after construction
load_config(f) ==
    IF ~f.exists THEN measurements_config
    ELSE IF ~f.parses \/ parse_config_raises(f) THEN measurements_config
    ELSE parse_config(f)

\* ConfigManager.__init__ on one configuration file; every exception of the
\* load is caught
LoadConfig ==
    /\ pc = "idle"
    /\ call.fn = "load_config"
    /\ returned = NoReturn
    /\ returned' = [fn |-> call.fn, raised |-> FALSE,
                    registry |-> load_config(call.arg)]
    /\ UNCHANGED <<inputVars, store, import_history, checkpoint_file, pc, run, resumed,
                   loopVars, total_stats, validation_stats, outcome, write_log, runs,
                   faults, valVars, retryVars, call, file_stat>>

(***************************************************************************)
(* validate_data_point on a workout point, by a validator built with a     *)
(* config manager (as main() builds it) or without one (legacy).           *)
(***************************************************************************)
ValidateWorkoutPoint ==
    /\ pc = "idle"
    /\ call.fn = "validate_data_point"
    /\ returned = NoReturn
    /\ \E v \in {IF call.arg.config_manager
                  THEN validate_data_point(
                           cfg, Point(WorkoutType, "energy_kcal", 1, call.arg.value))
                  ELSE validate_workout(call.arg)} :
          /\ returned' = [fn |-> call.fn, verdict |-> v]
          /\ validation_stats' =
                BumpValidation(validation_stats,
                               [point |-> NoPoint, key |-> "", validated |-> TRUE,
                                verdict |-> v])
    /\ UNCHANGED <<inputVars, store, import_history, checkpoint_file, pc, run, resumed,
                   loopVars, total_stats, outcome, write_log, runs,
                   faults, valVars, retryVars, call, file_stat>>

(***************************************************************************)
(* The import tracker on one export file: its methods called in any order, *)
(* the file rewritten, touched or removed in between.                      *)
(***************************************************************************)
\* the export is rewritten, touched or removed outside the program: os.stat
\* reports another size or modification time, or no file
TouchFile ==
    /\ pc = "idle"
    /\ call.fn = "tracker"
    /\ file_stat' \in ({[exists |-> TRUE, size |-> s, mtime |-> t] :
                            s \in 1..MaxSize, t \in 1..MaxMtime}
                        \cup {[exists |-> FALSE, size |-> 0, mtime |-> 0]})
                       \ {file_stat}
    /\ UNCHANGED <<inputVars, store, import_history, checkpoint_file, pc, run, resumed,
                   loopVars, total_stats, validation_stats, outcome, write_log, runs,
                   faults, valVars, retryVars, call, returned>>

\* ImportTracker.record_file_import on the export as it is now
RecordFileImport ==
    /\ pc = "idle"
    /\ call.fn = "tracker"
    /\ import_history' = record_file_import(import_history, get_file_hash(file_stat))
    /\ UNCHANGED <<inputVars, store, checkpoint_file, pc, run, resumed,
                   loopVars, total_stats, validation_stats, outcome, write_log, runs,
                   faults, valVars, retryVars, unitVars>>

\* ImportTracker.reset_history
ResetHistory ==
    /\ pc = "idle"
    /\ call.fn = "tracker"
    /\ import_history' = reset_history(import_history)
    /\ UNCHANGED <<inputVars, store, checkpoint_file, pc, run, resumed,
                   loopVars, total_stats, validation_stats, outcome, write_log, runs,
                   faults, valVars, retryVars, unitVars>>

\* main(): the points a run collected from some export, filtered by
\* filter_data_points_by_time when the run is incremental, are handed to
\* ImportTracker.update_last_timestamps once the writer has written one
UpdateLastTimestamps ==
    /\ pc = "idle"
    /\ call.fn = "tracker"
    /\ \E vitals \in SeqsUpTo({Point(HeartRate, "heartrate_bpm", t, 72) : t \in 1..MaxTime},
                               MaxBatchArg),
          activity \in SeqsUpTo({Point(ActiveEnergy, "energy_kcal", t, 300) : t \in 1..MaxTime},
                                 MaxBatchArg),
          incremental \in BOOLEAN :
          LET data_points ==
                  filter_data_points_by_time(import_history,
                      [vitals |-> vitals, activity |-> activity, sleep |-> <<>>,
                       errors |-> 0], incremental)
          IN  /\ data_points.vitals \o data_points.activity # <<>>
              /\ import_history' = update_last_timestamps(import_history, data_points)
    /\ UNCHANGED <<inputVars, store, checkpoint_file, pc, run, resumed,
                   loopVars, total_stats, validation_stats, outcome, write_log, runs,
                   faults, valVars, retryVars, unitVars>>

(***************************************************************************)
(* OptimizedXMLProcessor._process_batch on one batch.  An element is what  *)
(* processor_func does with it: returns a result, returns nothing, raises. *)
(***************************************************************************)
\* OptimizedXMLProcessor._process_batch_sequential, from the counters st
process_batch_sequential(elements, st) ==
    [calls |-> [i \in DOMAIN elements |-> st.calls[i] + 1],
     processed_count |-> st.processed_count
        + Cardinality({i \in DOMAIN elements : elements[i] = "result"}),
     error_count |-> st.error_count
        + Cardinality({i \in DOMAIN elements : elements[i] = "raise"})]

\* OptimizedXMLProcessor._process_batch_parallel.  fault: where the pool
\* raises.  "none": every element is submitted once and its future read.
\* "init": ThreadPoolExecutor() raises, nothing was submitted.  "submit":
\* executor.submit raises at element k (a worker thread cannot be started)
\* after queueing the work item; leaving the `with` block waits for the
\* pool, whose threads (there is one as soon as an earlier submit
\* succeeded) run the k queued items, their results read by nobody.  The
\* handler of the outer try then runs the sequential path over the batch.
process_batch_parallel(elements, st, fault) ==
    IF fault.stage = "none" THEN process_batch_sequential(elements, st)
    ELSE LET pooled == IF fault.stage = "submit" /\ fault.k >= 2
                       THEN 1..fault.k ELSE {}
         IN  process_batch_sequential(elements,
                 [st EXCEPT !.calls = [i \in DOMAIN elements |->
                                          IF i \in pooled THEN st.calls[i] + 1
                                          ELSE st.calls[i]]])

\* OptimizedXMLProcessor._process_batch of a new processor on one batch
OptimizedProcessBatch ==
    /\ pc = "idle"
    /\ call.fn = "_process_batch"
    /\ returned = NoReturn
    /\ \E st \in {[calls |-> [i \in DOMAIN call.arg |-> 0],
                    processed_count |-> 0, error_count |-> 0]} :
       \E r \in {IF call.num_workers > 1
                  THEN process_batch_parallel(call.arg, st, call.fault)
                  ELSE process_batch_sequential(call.arg, st)} :
          returned' = [fn |-> call.fn, calls |-> r.calls,
                       processed_count |-> r.processed_count,
                       error_count |-> r.error_count]
    /\ UNCHANGED <<inputVars, store, import_history, checkpoint_file, pc, run, resumed,
                   loopVars, total_stats, validation_stats, outcome, write_log, runs,
                   faults, valVars, retryVars, call, file_stat>>

\* one component called on its own, over every modelled argument
Calls ==
    {[fn |-> "prepare_point", arg |-> p] : p \in DataPoints}
    \cup {[fn |-> f, arg |-> l] :
            f \in {"write_points_batch", "write_points_batch_streaming"},
            l \in SeqsUpTo(BatchPoints, MaxBatchArg)}
    \cup {[fn |-> "parse_workout",
           arg |-> [kind |-> "workout", type |-> t, value |-> en, time |-> tm,
                    duration |-> du, distance |-> di]] :
            t \in {"", "HKWorkoutActivityTypeRunning"},
            tm \in {None, BadTime, 1},
            du \in {NoValue, BadValue, -1, 0, 1800},
            di \in {NoValue, BadValue, -1, 0, 5},
            en \in {NoValue, BadValue, -5, 0, 300}}
    \cup {[fn |-> "parse_heart_rate", arg |-> Rec(t, v, tm)] :
            t \in {HeartRate, ActiveEnergy},
            v \in {NoValue, BadValue, -5, 0, 1, 72, HeartRateParseMax - 1,
                   HeartRateParseMax, HeartRateParseMax + 1, 500},
            tm \in {None, BadTime} \cup Times}
    \cup {[fn |-> "parse_calories", arg |-> Rec(t, v, tm)] :
            t \in {ActiveEnergy, BasalEnergy, HeartRate},
            v \in {NoValue, BadValue, -5, 0, 100, 15000, 15001},
            tm \in {None, BadTime} \cup Times}
    \cup {[fn |-> "load_config", arg |-> f] :
            f \in [exists : BOOLEAN, parses : BOOLEAN,
                   top : {"none", "list", "mapping"},
                   measurements : {"absent", "null", "list", "mapping"},
                   entries : SeqsUpTo({"full", "empty", "text"}, MaxEntries)]}
    \cup {[fn |-> "validate_data_point",
           arg |-> [config_manager |-> c, activity_type |-> a, value |-> 300,
                    duration |-> du, distance |-> di]] :
            c \in BOOLEAN,
            a \in {"HKWorkoutActivityTypeRunning", "HKWorkoutActivityTypeWalking",
                   "HKWorkoutActivityTypeCycling"},
            du \in {0, 1800, 3600},
            di \in {0, 5000, 8000, 20000, 100000}}
    \cup {[fn |-> "tracker"]}
    \cup UNION {{[fn |-> "_process_batch", arg |-> l, num_workers |-> n, fault |-> f] :
                    n \in {1, 2},
                    f \in {[stage |-> "none", k |-> 0], [stage |-> "init", k |-> 0]}
                           \cup {[stage |-> "submit", k |-> k] : k \in 1..Len(l)}} :
                 l \in SeqsUpTo({"result", "nothing", "raise"}, MaxBatchArg)}

InitUnit ==
    /\ InitWith(FirstExports, {0}) /\ file = <<Rec(HeartRate, 72, 1)>>
    /\ RetryIdle
    /\ call \in Calls
    /\ returned = NoReturn
    /\ file_stat = [exists |-> TRUE, size |-> 1, mtime |-> 1]

NextUnit ==
    \/ PreparePoint
    \/ SeedStore
    \/ WritePointsBatch
    \/ WritePointsBatchStreaming
    \/ ParseWorkout
    \/ ParseHeartRate
    \/ ParseCalories
    \/ LoadConfig
    \/ ValidateWorkoutPoint
    \/ OptimizedProcessBatch
    \/ TouchFile
    \/ RecordFileImport
    \/ ResetHistory
    \/ UpdateLastTimestamps

SpecUnit == InitUnit /\ [][NextUnit]_vars

(***************************************************************************)
(* Claims.                                                                 *)
(***************************************************************************)
\* C1: a non-preview streaming run that resumed after an interruption of an
\* earlier run over the same unchanged file ends with the per-category
\* counts of one uninterrupted run over that file.
C1_ResumedCountsEqualUninterrupted ==
    (pc = "idle" /\ outcome = "completed" /\ run.mode = "streaming"
        /\ ~run.preview /\ resumed)
    => \A c \in Categories : total_stats[c] = UninterruptedCounts[c]

\* the points a standard run with the given incremental flag offers the
\* writer, and whether the store already holds each of them under the
\* measurement and timestamp it is written with
Candidates(incremental) ==
    AllPoints(filter_data_points_by_time(import_history,
                                         collect_data_points(cfg, file), incremental))

AllCandidatesStored(incremental) ==
    \A i \in DOMAIN Candidates(incremental) :
        <<PreparedMeasurement(Candidates(incremental)[i]),
          Candidates(incremental)[i].time>> \in store

\* C2: a full standard import whose candidates were all written by an
\* earlier import of the same input (their measurement and timestamp are in
\* the store), with no failure of the duplicate query or of the write
\* (forced or not), writes zero points.
C2_SecondRunWritesNothing ==
    [][(run'.mode = "standard" /\ runs' = runs + 1 /\ outcome' = "completed"
          /\ faults' = faults /\ AllCandidatesStored(run'.incremental))
       => total_stats'["written"] = 0]_vars

\* the total size of the batches S of the last write_points_batch call
SizeOfBatches(S) ==
    Cardinality({kj \in S \X (1..ProcessBatchSize) : kj[2] <= write_log.sizes[kj[1]]})

\* C3: after write_points_batch, a batch failed exactly when the store
\* failed all MaxRetries attempts of it; every prepared point is in a batch
\* that was attempted (also the batches after a failed one); written is the
\* total size of the successful batches and errors the total size of the
\* failed ones (plus the points that could not be prepared).
C3_BatchFailureIsolation ==
    (run.mode = "standard" /\ outcome = "completed")
    => LET batches == DOMAIN write_log.ok
           failed == {k \in batches : write_log.store_failures[k] >= MaxRetries}
       IN  /\ \A k \in batches : write_log.attempts[k] >= 1
           /\ SizeOfBatches(batches)
                 = write_log.n - total_stats["duplicates"] - write_log.prepare_errors
           /\ total_stats["written"] = SizeOfBatches(batches \ failed)
           /\ total_stats["errors"] = write_log.prepare_errors + SizeOfBatches(failed)

\* a standard import in which a batch exhausted its retries and a later
\* batch was written
C3_Witness ==
    /\ run.mode = "standard"
    /\ outcome = "completed"
    /\ \E k1, k2 \in DOMAIN write_log.ok :
          /\ k1 < k2
          /\ ~write_log.ok[k1]
          /\ write_log.ok[k2]
          /\ total_stats["written"] = write_log.sizes[k2]
          /\ total_stats["errors"] = write_log.sizes[k1]

\* the incremental rule for a point of the given time that is stored under
\* measurement m, against the history before the step
NewerThanLastImport(time, m) ==
    \/ import_history.last_timestamps[m] = None
    \/ time > import_history.last_timestamps[m]

\* the number of points of the sequence the incremental rule lets through
NumberIncluded(points) ==
    Cardinality({i \in DOMAIN points :
                    NewerThanLastImport(points[i].time, PreparedMeasurement(points[i]))})

\* the number of points the writer was handed, from the write statistics
Handed(stats) == stats["written"] + stats["duplicates"] + stats["errors"]

\* C4: in incremental mode a point goes on to the write exactly when its
\* time is later than the last timestamp recorded for the measurement it is
\* stored under, or when none is recorded.  Standard path: the category
\* lists after the filter hold exactly those points.  Streaming path: a
\* batch flush hands the writer exactly those points of the batch.
C4_TimestampFilter ==
    [][/\ (run'.mode = "standard" /\ runs' = runs + 1 /\ run'.incremental
            /\ outcome' \in {"completed", "previewed", "nodata"})
          => \A c \in Categories :
                total_stats'[c] = NumberIncluded(collect_data_points(cfg, file)[c])
       /\ (run.mode = "streaming" /\ run.incremental /\ ~run.preview
            /\ \/ pc = "mid" /\ pc' = "loop" /\ Len(batch_data) >= ProcessBatchSize
               \/ pc = "loop" /\ pc' = "idle" /\ outcome' = "completed")
          => Handed(total_stats') - Handed(total_stats) = NumberIncluded(batch_data)
      ]_vars

\* an incremental streaming run over an export of two heart-rate records,
\* after an import that recorded time 1 for heart rate: the record of time
\* 1 was held back and the record of time 2 was written
C4_Witness ==
    /\ file = <<Rec(HeartRate, 72, 1), Rec(HeartRate, 72, 2)>>
    /\ run.mode = "streaming" /\ run.incremental /\ ~run.preview
    /\ outcome = "completed"
    /\ import_history.last_timestamps["heartrate_bpm"] = 1
    /\ total_stats["vitals"] = 2
    /\ total_stats["written"] = 1
    /\ total_stats["duplicates"] = 0
    /\ total_stats["errors"] = 0

\* C5: the iteration of a Record whose type is listed in no category adds
\* one to unknown_types and changes no other counter, adds nothing to the
\* batch, writes nothing and raises nothing: the loop goes on.
C5_UnknownTypeSafety ==
    [][(pc = "loop" /\ pc' = "mid" /\ file[cur'].kind = "record"
          /\ \A c \in Categories : file[cur'].type \notin measurements_config[c].types)
       => /\ total_stats' = [total_stats EXCEPT !["unknown_types"] = @ + 1]
          /\ batch_data' = batch_data
          /\ store' = store
          /\ outcome' = "running"]_vars

\* a streaming run that met a body-mass record (no category lists it),
\* went on and wrote the heart-rate record after it
C5_Witness ==
    /\ file = <<Rec(BodyMass, 70, 1), Rec(HeartRate, 72, 1)>>
    /\ run.mode = "streaming" /\ ~run.preview
    /\ outcome = "completed"
    /\ total_stats["unknown_types"] = 1
    /\ total_stats["vitals"] = 1
    /\ total_stats["written"] = 1
    /\ store = {<<"heartrate_bpm", 1>>}

\* the scenario input: one heart-rate record of 72 and one of 500
ScenarioFile == <<Rec(HeartRate, 72, 2), Rec(HeartRate, 500, 1)>>

\* C6: a first, complete import of the scenario input with validation
\* enabled and no storage failure ends with the validator having judged one
\* point valid and one invalid, and with exactly one point written.
C6_ScenarioOneValidOneError ==
    (file = ScenarioFile /\ cfg # "novalidation" /\ runs = 1 /\ faults = 0
        /\ outcome = "completed" /\ ~run.preview)
    => /\ validation_stats.errors = 1
       /\ validation_stats.total_validated - validation_stats.errors = 1
       /\ total_stats["written"] = 1

\* C7: with the rule {min, max, typical_min, typical_max} configured for the
\* heart-rate value, the verdict of validate_data_point and of
\* validate_heart_rate has an error exactly when the value is outside
\* [min, max], has one warning and no error exactly when the value is inside
\* [min, max] and outside [typical_min, typical_max], has neither inside the
\* typical range, and never has both.
C7_ValidationBoundary ==
    (cfg = "rules" /\ verdict.by # "none")
    => LET outside == hr_value < HeartRateRule.min \/ hr_value > HeartRateRule.max
           untypical == hr_value < HeartRateRule.typical_min
                           \/ hr_value > HeartRateRule.typical_max
       IN  /\ (verdict.errors > 0) <=> outside
           /\ (verdict.warnings = 1 /\ verdict.errors = 0) <=> (~outside /\ untypical)
           /\ ~untypical => (verdict.errors = 0 /\ verdict.warnings = 0)
           /\ ~(verdict.errors > 0 /\ verdict.warnings > 0)

C9_ResumeDecision ==
    (run.mode = "streaming" /\ pc = "loop" /\ pos = 0 /\ cur = 0)
    => LET progress == \/ checkpoint_file.processed_records > 0
                       \/ checkpoint_file.processed_workouts > 0
                       \/ checkpoint_file.processed_activities > 0
           expected == ~run.force /\ checkpoint_file.file_hash = file_hash /\ progress
       IN  /\ resumed <=> expected
           /\ resumed => /\ resume_position.records = checkpoint_file.processed_records
                          /\ resume_position.workouts = checkpoint_file.processed_workouts
                          /\ resume_position.activities
                                = checkpoint_file.processed_activities
                          /\ total_stats = checkpoint_file.stats
           /\ ~resumed => /\ resume_position = ZeroPosition
                           /\ total_stats = ZeroStats

\* C10: once a non-preview streaming run has completed, the checkpoint is
\* empty: it carries neither the file's fingerprint nor any position, so a
\* run started next on the same file cannot resume from it.
C10_CheckpointCleared ==
    (run.mode = "streaming" /\ ~run.preview /\ outcome = "completed" /\ pc = "idle")
    => /\ checkpoint_file.file_hash # file_hash
       /\ checkpoint_file.processed_records = 0
       /\ checkpoint_file.processed_workouts = 0
       /\ checkpoint_file.processed_activities = 0

\* a run that resumed from a checkpoint, completed and left none behind
C10_Witness ==
    /\ run.mode = "streaming" /\ ~run.preview
    /\ outcome = "completed"
    /\ resumed
    /\ total_stats["written"] > 0
    /\ checkpoint_file = EmptyCheckpoint

\* the points of measurement m a streaming run over the whole file accepts
AcceptedOf(m) ==
    {i \in DOMAIN file : /\ ElementOutcome(cfg, file[i]).point # NoPoint
                          /\ ElementOutcome(cfg, file[i]).point.measurement = m}

\* C11: once a non-preview streaming run has completed normally, whatever
\* the number of points it wrote, the import history records the file's
\* fingerprint, so an unforced run on the unchanged file would end early as
\* already imported.
C11_CompletedRunRecordsFile ==
    (run.mode = "streaming" /\ ~run.preview /\ outcome = "completed" /\ pc = "idle")
    => is_file_already_imported(import_history, file_hash)

\* C12: after a streaming run from the start of the file that completed
\* and wrote at least one point, last_timestamps of every measurement the
\* run accepted points of is the latest timestamp of those points.
C12_LastTimestampsAreRunMaximum ==
    (run.mode = "streaming" /\ ~run.preview /\ ~resumed /\ outcome = "completed"
        /\ pc = "idle" /\ total_stats["written"] > 0)
    => \A m \in Measurements :
          AcceptedOf(m) # {}
          => /\ import_history.last_timestamps[m] # None
             /\ \A i \in AcceptedOf(m) :
                   ElementOutcome(cfg, file[i]).point.time
                      <= import_history.last_timestamps[m]
             /\ \E i \in AcceptedOf(m) :
                   ElementOutcome(cfg, file[i]).point.time
                      = import_history.last_timestamps[m]

\* C13: a streaming run that is not forced, finds no resumable checkpoint
\* and finds the file's fingerprint in the import history returns at once:
\* it streams no element and leaves the store, the checkpoint and the
\* import history as they were.
C13_EarlyNoOp ==
    [][(pc = "idle" /\ runs' = runs + 1 /\ run'.mode = "streaming" /\ ~run'.force
          /\ ~can_resume(checkpoint_file, file_hash)
          /\ import_history.imported_hash = file_hash)
       => /\ pc' = "idle" /\ outcome' = "noop"
          /\ pos' = 0 /\ cur' = 0 /\ batch_data' = <<>>
          /\ total_stats' = ZeroStats
          /\ store' = store
          /\ checkpoint_file' = checkpoint_file
          /\ import_history' = import_history]_vars

\* an unforced run that ended early on a file an earlier run had imported
C13_Witness ==
    /\ run.mode = "streaming" /\ ~run.force
    /\ outcome = "noop" /\ pc = "idle"
    /\ runs = 2
    /\ import_history.imported_hash = file_hash
    /\ store # {}

\* C14: no step of a preview streaming run changes the store, the
\* checkpoint or the import history; in a preview run started from zero
\* the number of accepted points never exceeds the sample size, and once an
\* iteration ends with the sample size reached no further element is
\* processed.
C14_PreviewIsDryRun ==
    [][(run'.mode = "streaming" /\ run'.preview)
       => /\ store' = store
          /\ checkpoint_file' = checkpoint_file
          /\ import_history' = import_history
          /\ ~resumed'
               => total_stats'["vitals"] + total_stats'["activity"]
                     + total_stats'["sleep"] <= PreviewLimit
          /\ (run.mode = "streaming" /\ run.preview /\ pc = "loop" /\ pos > 0
                /\ total_stats["vitals"] + total_stats["activity"]
                      + total_stats["sleep"] >= PreviewLimit)
               => pc' # "mid"]_vars

\* a preview run that stopped at the sample size with an acceptable element
\* of the file still unread, and wrote nothing
C14_Witness ==
    /\ run.mode = "streaming" /\ run.preview /\ ~resumed
    /\ outcome = "completed" /\ pc = "idle"
    /\ AcceptedTotal(total_stats) = PreviewLimit
    /\ AcceptedTotal(UninterruptedCounts) > PreviewLimit
    /\ store = {}
    /\ import_history = EmptyHistory

\* the candidates of a standard run the store already holds under the
\* measurement they would be written under and at their timestamp
StoredCandidates(incremental) ==
    {i \in DOMAIN Candidates(incremental) :
        <<PreparedMeasurement(Candidates(incremental)[i]),
          Candidates(incremental)[i].time>> \in store}

\* C15: in a standard import whose duplicate queries all succeed, the
\* candidates counted as duplicates are exactly the candidates the store
\* already holds under the measurement name they would be written under
\* and with the same timestamp.
C15_DuplicateRule ==
    [][(run'.mode = "standard" /\ runs' = runs + 1 /\ outcome' = "completed"
          /\ faults' = faults)
       => total_stats'["duplicates"]
             = Cardinality(StoredCandidates(run'.incremental))]_vars

\* the points of a list whose duplicate query succeeded (their measurement
\* is not in failed) and whose measurement and timestamp the store holds
FoundInStore(points, failed) ==
    {i \in DOMAIN points : /\ points[i].measurement \notin failed
                            /\ <<points[i].measurement, points[i].time>> \in store}

\* C16: when the duplicate query of a measurement raises, no candidate of
\* that measurement is counted as a duplicate: the duplicates of a batch
\* write are exactly the stored candidates of the measurements whose query
\* succeeded, every other candidate goes on to the write (it ends as
\* written or as a write error), and the run goes on as if the query had
\* succeeded: the standard import completes, the streaming loop continues.
C16_DuplicateCheckFailOpen ==
    [][/\ (run'.mode = "standard" /\ runs' = runs + 1
            /\ outcome' \notin {"noop", "nodata", "previewed"})
          => /\ outcome' = "completed"
             /\ total_stats'["duplicates"]
                  = Cardinality(FoundInStore(Candidates(run'.incremental),
                                             write_log'.query_failures))
             /\ Handed(total_stats') = Len(Candidates(run'.incremental))
       /\ (run.mode = "streaming" /\ ~run.preview
            /\ \/ pc = "mid" /\ pc' = "loop" /\ Len(batch_data) >= ProcessBatchSize
               \/ pc = "loop" /\ pc' = "idle" /\ outcome' = "completed"
                     /\ batch_data # <<>>)
          => /\ outcome' \in {"running", "completed"}
             /\ total_stats'["duplicates"] - total_stats["duplicates"]
                  = Cardinality(FoundInStore(HandedPoints(batch_data, run.incremental),
                                             write_log'.query_failures))
             /\ Handed(total_stats') - Handed(total_stats)
                  = Len(HandedPoints(batch_data, run.incremental))
      ]_vars

\* a run over the second export whose first record an earlier import of the
\* first export had stored: the heart-rate query failed, the record was not
\* counted as a duplicate and the batch was written
C16_Witness ==
    /\ file_hash = 2
    /\ file[1] = Rec(HeartRate, 72, 1)
    /\ import_history.imported_hash = 1
    /\ run.mode = "streaming" /\ ~run.preview /\ ~run.incremental
    /\ outcome = "interrupted"
    /\ write_log.query_failures = {"heartrate_bpm"}
    /\ total_stats["duplicates"] = 0
    /\ total_stats["written"] >= 1
    /\ <<"heartrate_bpm", 1>> \in store

\* C17: a retrying write (_write_batch_with_retry or write_point) makes at
\* most MaxRetries attempts, all but the last of them failed; it returns
\* true exactly when an attempt succeeded and then made no further attempt
\* (a first-attempt success is one store call); it returns false after
\* MaxRetries failures; and the wait before retry k is
\* retry_delay_base ^ (k - 1), the exponent being the index of the failed
\* attempt counted from zero.
C17_BoundedRetry ==
    (write_result.by # "none" /\ ~write_result.skipped)
    => /\ write_result.attempts \in 1..MaxRetries
       /\ \A a \in 1..(write_result.attempts - 1) : ~store_outcomes[a]
       /\ write_result.ok <=> store_outcomes[write_result.attempts]
       /\ ~write_result.ok => write_result.attempts = MaxRetries
       /\ store_outcomes[1] => write_result.attempts = 1
       /\ DOMAIN write_result.waits = 1..(write_result.attempts - 1)
       /\ \A k \in DOMAIN write_result.waits :
             write_result.waits[k] = retry_delay_base ^ (k - 1)

\* C18: in a streaming run the points of a flushed batch are counted as
\* errors because of a failed write only after MaxRetries attempts failed.
\* While fewer than MaxRetries store calls have failed in all, a flush adds
\* to `errors` only the points that could not be prepared, and the loop
\* goes on.
C18_StreamingWriteRetried ==
    [][(run.mode = "streaming" /\ ~run.preview
          /\ faults' < MaxRetries
          /\ \/ pc = "mid" /\ pc' = "loop" /\ Len(batch_data) >= ProcessBatchSize
             \/ pc = "loop" /\ pc' = "idle" /\ outcome' = "completed"
                   /\ batch_data # <<>>)
       => total_stats'["errors"] - total_stats["errors"]
             = Cardinality({i \in DOMAIN HandedPoints(batch_data, run.incremental) :
                               ~PrepareOk(HandedPoints(batch_data, run.incremental)[i])})
      ]_vars

\* C19: the iteration of a record of a configured type whose start date
\* no accepted format parses adds exactly one to `errors`, adds no point to
\* the batch, and the loop goes on.
C19_UnparseableTimestampCounted ==
    [][(run.mode = "streaming" /\ pc = "loop" /\ pc' = "mid"
          /\ file[cur'].kind = "record"
          /\ find_measurement_category(file[cur'].type) # "none"
          /\ file[cur'].time = BadTime)
       => /\ total_stats'["errors"] = total_stats["errors"] + 1
          /\ batch_data' = batch_data
          /\ outcome' = "running"]_vars

\* C20: when a checkpoint of a non-preview streaming run is due and the
\* checkpoint file is not written, the run does not go on: it ends as
\* failed.  (A due checkpoint that is written holds the fingerprint, the
\* positions and the statistics of the step.)
C20_CheckpointFailureFatal ==
    [][(run.mode = "streaming" /\ ~run.preview /\ pc = "mid"
          /\ SumPosition(processed_counts') - last_checkpoint >= CheckpointInterval)
       => \/ checkpoint_file' = CheckpointOf(file_hash, processed_counts', total_stats')
          \/ pc' = "idle" /\ outcome' = "failed"]_vars

\* the points of a list whose type is listed in no category
Unresolvable(points) ==
    {i \in DOMAIN points : find_measurement_category(points[i].type) = "none"}

\* C21: prepare_point raises for a point whose type is listed in no
\* category; a batch write (either path, store empty, no store failure)
\* counts each such point as one error, writes every other point of the
\* list, and leaves in the store only the other points, under their
\* category's measurement name.
C21_UnresolvableTypeNeverWritten ==
    /\ returned.fn = "prepare_point"
          => (returned.raised <=> find_measurement_category(call.arg.type) = "none")
    /\ (returned.fn \in {"write_points_batch", "write_points_batch_streaming"}
            /\ returned.before = {} /\ returned.failed = 0)
          => /\ returned.errors = Cardinality(Unresolvable(call.arg))
             /\ returned.written = Len(call.arg) - Cardinality(Unresolvable(call.arg))
             /\ Len(returned.handed) = returned.written
             /\ store = {<<measurements_config[
                               find_measurement_category(call.arg[i].type)
                            ].measurement_name,
                            call.arg[i].time>> :
                             i \in DOMAIN call.arg \ Unresolvable(call.arg)}

\* a streaming batch write whose first point was of no configured category:
\* counted as one error, the second point written
C21_Witness ==
    /\ returned.fn = "write_points_batch_streaming"
    /\ Len(call.arg) = 2
    /\ call.arg[1].type = BodyMass
    /\ call.arg[2].type = HeartRate
    /\ returned.errors = 1
    /\ returned.written = 1
    /\ store = {<<"heartrate_bpm", call.arg[2].time>>}

\* the measurement name configured for the category a type is listed in
ConfiguredName(type) ==
    measurements_config[find_measurement_category(type)].measurement_name

\* C22: a prepared point carries the measurement name configured for the
\* category of its type, whatever name the data point carried, both when
\* prepare_point is called alone and in the points a batch write hands to
\* the store.
C22_PreparedMeasurementFromConfig ==
    /\ (returned.fn = "prepare_point" /\ ~returned.raised)
          => returned.point.measurement = ConfiguredName(call.arg.type)
    /\ returned.fn \in {"write_points_batch", "write_points_batch_streaming"}
          => \A i \in DOMAIN returned.handed :
                returned.handed[i].measurement
                   = ConfiguredName(returned.handed[i].tags["type"])

\* a workout point that carried another name, prepared as energy_kcal
C22_Witness ==
    /\ returned.fn = "prepare_point" /\ ~returned.raised
    /\ call.arg.type = WorkoutType
    /\ call.arg.measurement = "generic_quantity"
    /\ returned.point.measurement = "energy_kcal"

\* the tags of a prepared point of the given type are well formed
WellFormedTags(tags, type) ==
    /\ "type" \in DOMAIN tags
    /\ tags["type"] = type
    /\ \A k \in DOMAIN tags :
          /\ tags[k] \notin {NoneTag, "", " "}
          /\ k # "type" => k \in config_tags(find_measurement_category(type))

\* C23: in every prepared point (prepare_point alone, and every point a
\* batch write hands to the store) the `type` tag is present, no tag value
\* is None, empty or blank, and every other tag key is in the tag whitelist
\* of the point's category.
C23_TagInvariant ==
    /\ (returned.fn = "prepare_point" /\ ~returned.raised)
          => WellFormedTags(returned.point.tags, call.arg.type)
    /\ returned.fn \in {"write_points_batch", "write_points_batch_streaming"}
          => \A i \in DOMAIN returned.handed :
                WellFormedTags(returned.handed[i].tags,
                               returned.handed[i].tags["type"])

\* a heart-rate point with a blank device, a unit and a padded activity
\* type: only the type tag is left
C23_Witness ==
    /\ returned.fn = "prepare_point" /\ ~returned.raised
    /\ call.arg.type = HeartRate
    /\ DOMAIN call.arg.tags = {"device", "unit", "activity_type"}
    /\ call.arg.tags["device"] = " "
    /\ call.arg.tags["unit"] = " Watch "
    /\ DOMAIN returned.point.tags = {"type"}

NonNegative(v) == ~float_raises(v) /\ float_or_zero(v) >= 0

\* C25: parse_workout returns a point exactly when the activity type and
\* the start date are present and duration, distance and energy are not
\* negative; the point's distance is totalDistance x 1000, its duration and
\* energy are the element's; it never raises.
C25_WorkoutPointIff ==
    returned.fn = "parse_workout"
    => /\ ~returned.raised
       /\ returned.point # NoPoint
             <=> /\ call.arg.type # "" /\ call.arg.time # None
                 /\ NonNegative(call.arg.duration)
                 /\ NonNegative(call.arg.distance)
                 /\ NonNegative(call.arg.value)
       /\ returned.point # NoPoint
             => /\ returned.fields.distance = float_or_zero(call.arg.distance) * 1000
                /\ returned.fields.duration = float_or_zero(call.arg.duration)
                /\ returned.fields.value = float_or_zero(call.arg.value)

\* C26: parse_heart_rate returns a point exactly when the type is the
\* heart-rate identifier, value and start date are present and the value is
\* in (0, 400]; it never raises.
C26_HeartRatePointIff ==
    returned.fn = "parse_heart_rate"
    => /\ ~returned.raised
       /\ returned.point # NoPoint
             <=> /\ call.arg.type = HeartRate
                 /\ call.arg.value # NoValue /\ call.arg.time # None
                 /\ ~float_raises(call.arg.value)
                 /\ call.arg.value > 0 /\ call.arg.value <= 400

\* C27: parse_heart_rate returns None for a heart-rate record of value 400
\* or more.
C27_HeartRateFrom400Rejected ==
    (returned.fn = "parse_heart_rate" /\ call.arg.type = HeartRate
        /\ call.arg.value >= 400)
    => returned.point = NoPoint

\* the plausibility bound of the parser test
PlausibleCaloriesMax == 15000

\* C28: parse_calories returns None for an energy record whose value is
\* negative or at or above the plausibility bound of the test, and a point
\* tagged energy_type active or resting for a plausible value of an active
\* or basal energy record with a parseable start date.
C28_ImplausibleCaloriesRejected ==
    (returned.fn = "parse_calories"
        /\ call.arg.type \in {ActiveEnergy, BasalEnergy}
        /\ call.arg.value # NoValue /\ ~float_raises(call.arg.value))
    => /\ (call.arg.value < 0 \/ call.arg.value >= PlausibleCaloriesMax)
             => returned.point = NoPoint
       /\ (call.arg.value >= 0 /\ call.arg.value < PlausibleCaloriesMax
              /\ parse_datetime_ok(call.arg.time))
             => /\ returned.point # NoPoint
                /\ returned.energy_type
                      = (IF call.arg.type = ActiveEnergy THEN "active" ELSE "resting")

\* the file is there but is not a configuration: it does not open or parse,
\* the document is not a mapping, it has no mapping of categories, or a
\* category entry is not a full mapping
Malformed(f) ==
    /\ f.exists
    /\ \/ ~f.parses
       \/ f.top # "mapping"
       \/ f.measurements # "mapping"
       \/ \E i \in DOMAIN f.entries : f.entries[i] # "full"

\* C29: constructing the ConfigManager on a missing or malformed
\* configuration file does not raise, and the registry afterwards is
\* exactly the default table of vitals, activity and sleep.
C29_ConfigFallback ==
    (returned.fn = "load_config" /\ (~call.arg.exists \/ Malformed(call.arg)))
    => /\ ~returned.raised
       /\ returned.registry = measurements_config

\* the elements the run has yielded up to element `upto` and accepted
AcceptedYielded(upto) ==
    {i \in 1..upto : /\ Yielded(i, resume_position)
                      /\ ElementOutcome(cfg, file[i]).point # NoPoint}

\* the elements whose points are in a batch that was last appended to at
\* or before `upto`: the last Len(batch) accepted ones
ElementsInBatch(batch, upto) ==
    {i \in AcceptedYielded(upto) :
        Cardinality({j \in AcceptedYielded(upto) : j >= i}) <= Len(batch)}

\* element i is at or before the position a checkpoint holds
CoveredBy(i, checkpoint) ==
    KindOrdinal(i) <= get_resume_position(checkpoint)[KindKey(file[i].kind)]

\* C30: whenever the streaming loop persists a checkpoint (periodically or
\* in the interrupt and exception handlers), no element at or before the
\* checkpointed position has its accepted point still in the in-memory
\* batch, i.e. not handed to the writer.
C30_CheckpointCoversOnlyHandedPoints ==
    [][(pc \in {"loop", "mid"} /\ checkpoint_file' # checkpoint_file
          /\ checkpoint_file'.file_hash = file_hash)
       => LET kept == IF pc' = "loop" THEN batch_data' ELSE batch_data
              upto == IF pc = "mid" THEN cur ELSE pos
          IN  \A i \in ElementsInBatch(kept, upto) :
                 ~CoveredBy(i, checkpoint_file')]_vars

\* the points the loop accepts from the first `upto` elements, in file order
AcceptedPoints(upto) ==
    LET accepted(p) == p # NoPoint IN
    SelectSeq([i \in 1..upto |-> ElementOutcome(cfg, file[i]).point], accepted)

\* a streaming run from the start of the file that writes every batch whole
PlainRun ==
    run.mode = "streaming" /\ ~run.preview /\ ~run.incremental /\ ~resumed

\* C31: in a non-preview, non-incremental streaming run from the start of
\* the file, the points handed to the writer so far are, one for one and in
\* order, the first accepted points, and the in-memory batch holds exactly
\* the accepted points after them; when the run completes every accepted
\* point of the file has been handed over once (and, when no store call
\* failed, is in the store).
C31_EveryAcceptedPointHandedOnce ==
    /\ (PlainRun /\ pc \in {"loop", "mid"})
          => LET all == AcceptedPoints(IF pc = "mid" THEN cur ELSE pos) IN
             /\ Handed(total_stats) + Len(batch_data) = Len(all)
             /\ batch_data = SubSeq(all, Handed(total_stats) + 1, Len(all))
    /\ (PlainRun /\ pc = "idle" /\ outcome = "completed")
          => LET all == AcceptedPoints(Len(file)) IN
             /\ Handed(total_stats) = Len(all)
             /\ faults = 0
                   => \A i \in DOMAIN all : <<all[i].measurement, all[i].time>> \in store

\* a completed run over two elements of which only the second was accepted:
\* the partial batch was flushed at the end
C31_Witness ==
    /\ PlainRun /\ pc = "idle" /\ outcome = "completed"
    /\ Len(file) = 2
    /\ Len(AcceptedPoints(1)) = 0
    /\ Len(AcceptedPoints(2)) = 1
    /\ Handed(total_stats) = 1
    /\ total_stats["written"] = 1

\* C32: the in-memory batch of the streaming loop never holds more than
\* process_batch_size points, and between two iterations it holds fewer
\* than process_batch_size points, in preview mode too.
C32_BoundedBatch ==
    /\ Len(batch_data) <= ProcessBatchSize
    /\ pc = "loop" => Len(batch_data) < ProcessBatchSize

\* after the iteration that accepted the second of two points the batch,
\* which had reached process_batch_size, is empty again
C32_Witness ==
    /\ run.mode = "streaming" /\ pc = "loop" /\ ~resumed
    /\ pos = ProcessBatchSize
    /\ Len(AcceptedPoints(pos)) = ProcessBatchSize
    /\ batch_data = <<>>

\* the number of elements covered by the last persisted checkpoint of this
\* file, or by the position the run started from when that is further on
CheckpointedElements ==
    LET saved == SumPosition(get_resume_position(checkpoint_file))
        start == SumPosition(resume_position)
    IN  IF checkpoint_file.file_hash = file_hash /\ saved >= start
        THEN saved ELSE start

C34_CompleteAccounting ==
    (run.mode = "streaming" /\ ~run.preview /\ ~resumed /\ faults = 0
        /\ pc = "idle" /\ outcome = "completed")
    => AcceptedTotal(total_stats) + total_stats["validation_errors"]
          + total_stats["unknown_types"] + total_stats["errors"] = Len(file)

\* the workout's distance / duration x 3.6 exceeds kmh
SpeedOver(w, kmh) == w.duration > 0 /\ w.distance * 36 > kmh * 10 * w.duration

\* C35: validate_data_point on a workout point with duration > 0, by the
\* config-driven and by the legacy validator: an invalid verdict with an
\* error when the speed exceeds 100 km/h; a valid verdict with a warning
\* when it does not and a running workout exceeds 30 km/h or a walking
\* workout 12 km/h.
C35_WorkoutSpeedCheck ==
    returned.fn = "validate_data_point"
    => LET w == call.arg IN
       /\ SpeedOver(w, 100)
             => ~returned.verdict.is_valid /\ returned.verdict.errors > 0
       /\ (~SpeedOver(w, 100)
            /\ \/ w.activity_type = "HKWorkoutActivityTypeRunning" /\ SpeedOver(w, 30)
               \/ w.activity_type = "HKWorkoutActivityTypeWalking" /\ SpeedOver(w, 12))
             => returned.verdict.is_valid /\ returned.verdict.warnings > 0

\* C36: of the accepted points of a first, complete, non-preview,
\* non-incremental streaming run without a failed store call, a point is
\* written when no earlier accepted point has its measurement and time, and
\* is counted as a duplicate when one has, whether the two were flushed in
\* the same batch or in successive ones.
C36_SameInstantCollision ==
    (PlainRun /\ runs = 1 /\ faults = 0 /\ pc = "idle" /\ outcome = "completed")
    => LET all == AcceptedPoints(Len(file))
           firsts == {i \in DOMAIN all :
                        \A j \in 1..(i - 1) :
                            <<all[j].measurement, all[j].time>>
                               # <<all[i].measurement, all[i].time>>}
       IN  /\ total_stats["written"] = Cardinality(firsts)
           /\ total_stats["duplicates"] = Len(all) - Cardinality(firsts)

\* the tracker recognises the export, as it is now, as already imported
AlreadyImported ==
    is_file_already_imported(import_history, get_file_hash(file_stat))

\* C37: is_file_already_imported holds exactly when the history holds a
\* record of the file whose stored hash is the file's current fingerprint:
\* it holds right after record_file_import, and it fails for a file never
\* recorded, once the size or the modification time of a recognised file
\* changes, and after reset_history.
C37_FingerprintHistory ==
    [][/\ AlreadyImported <=>
            (import_history.imported_hash # None
                /\ import_history.imported_hash = get_file_hash(file_stat))
       /\ RecordFileImport => AlreadyImported'
       /\ ResetHistory => ~AlreadyImported'
       /\ import_history.imported_hash = None => ~AlreadyImported
       /\ (AlreadyImported /\ TouchFile) => ~AlreadyImported']_vars

\* a recorded export whose modification time alone changed afterwards is
\* not recognised
C37_Witness ==
    /\ call.fn = "tracker"
    /\ file_stat.exists
    /\ \E t \in 1..MaxMtime :
          /\ t # file_stat.mtime
          /\ import_history.imported_hash =
                get_file_hash([file_stat EXCEPT !.mtime = t])
    /\ ~AlreadyImported

\* C40: last_timestamps[m] never moves backwards: every step of the tracker
\* other than reset_history leaves each stored timestamp as it is or
\* replaces it with a later one (a missing timestamp counting as earliest).
C40_MonotonicLastTimestamps ==
    [][\/ import_history' = reset_history(import_history)
       \/ \A m \in Measurements :
             import_history'.last_timestamps[m] >= import_history.last_timestamps[m]]_vars

\* C39: the statistics write_points_batch and write_points_batch_streaming
\* return for a list of n points satisfy written + duplicates + errors = n,
\* whatever points the store already held, whichever points could not be
\* prepared and whichever duplicate queries and writes raised.
C39_WriterStatisticsConservation ==
    returned.fn \in {"write_points_batch", "write_points_batch_streaming"}
       => /\ returned.written >= 0 /\ returned.duplicates >= 0 /\ returned.errors >= 0
          /\ returned.written + returned.duplicates + returned.errors = Len(call.arg)

\* a write_points_batch call of three points on a store that held one of
\* them, one of the others of no configured category: one duplicate, one
\* prepare error, and the batch of the third failed every attempt
C39_Witness ==
    /\ returned.fn = "write_points_batch"
    /\ Len(call.arg) = 3
    /\ returned.before # {}
    /\ returned.failed > 0
    /\ returned.duplicates = 1
    /\ Cardinality(Unresolvable(call.arg)) = 1
    /\ Len(returned.handed) = 1
    /\ returned.errors = 2
    /\ returned.written = 0

\* C38: after _process_batch returns, every element of the batch was passed
\* to the processor function exactly once, also when the worker-pool path
\* raised and the sequential path took over, and processed_count and
\* error_count were updated once per element.
C38_ParallelFallbackExactlyOnce ==
    returned.fn = "_process_batch"
       => /\ \A i \in DOMAIN call.arg : returned.calls[i] = 1
          /\ returned.processed_count
                = Cardinality({i \in DOMAIN call.arg : call.arg[i] = "result"})
          /\ returned.error_count
                = Cardinality({i \in DOMAIN call.arg : call.arg[i] = "raise"})
====
